---------------------------- MODULE Spec2Model ----------------------------
(***************************************************************************)
(* Model of the Airbnb manager (src/airbnb-manager): the primary message   *)
(* pipeline (gmail_handler, message_processor), the primary relational     *)
(* store (db/database.py), the SQL conversation store                      *)
(* (db/conversation_db.py) and the response generator.                     *)
(*                                                                         *)
(* Modelling conventions                                                   *)
(*  - A table is a sequence of rows; the AUTOINCREMENT id of a row is its  *)
(*    index (no operation of the program deletes a row).                   *)
(*  - SQL NULL / Python None is the sentinel NULL (text columns), NULO     *)
(*    (date columns) or <<"null", "">> (conversation columns).             *)
(*  - An SQLite statement succeeds unless it violates a constraint of the  *)
(*    schema; the mail transport (IMAP, SMTP) may fail at any call; the    *)
(*    analysis of a message (NLP code, not modelled) may raise.            *)
(***************************************************************************)
EXTENDS Integers, Sequences, FiniteSets, TLC

(***************************************************************************)
(* Bounds of the model and constants of the program                        *)
(***************************************************************************)
\* gmail ids that can arrive in the inbox: 1..MaxCorreos
MaxCorreos == 3
\* cap of the run counter kept for the history of send attempts
MaxCorridas == 2
\* ids[:10] of leer_mensajes_para_procesar
LimiteLote == 10
\* calendar days: 1..MaxFecha, in the order of their ISO text
MaxFecha == 2
\* rows of the table reservas
MaxReservas == 2
\* tokens of the subject of a mail
MaxAsunto == 3

\* max_size of the modelled pools (list_pool and dict_pool use 20)
max_size == 2

\* Most elements a caller leaves in a pooled object
MaxElementos == 1

\* Ticks of the clock (time.time()) a run covers
MaxReloj == 3

\* QueryCache.default_ttl (300 s), in ticks
default_ttl == 2

\* Writes a table sees in a run
MaxEscrituras == 2

\* ConnectionPool.max_connections (10 by default)
max_connections == 2

\* maxlen of MemoryMonitor.memory_history (100)
maxlen == 6

\* Monitor loops alive at once that a run follows
MaxLoops == 2

\* unload calls a run follows
MaxDescargas == 2

\* Chunks a MemoryEfficientList is meant to keep (10)
max_chunks == 3

\* Highest chunk index read
MaxChunk == 6

\* AsyncTaskQueue.max_concurrent_tasks (5 by default)
max_concurrent_tasks == 1

\* Tasks added to the queue in a run
MaxTareas == 3
MaxObjetos == 2

NULL == "<NULL>"
TEXTO_REVISION_MANUAL == "Requiere revision manual"
SIN_EXCEPCION == "<sin excepcion>"
\* str(e) of the exceptions the analysis or the response generation raises
Excepciones == {"AttributeError: lower", "TypeError: NoneType"}
\* reply texts produced by generate_response for the messages of the inbox
Respuestas == {"Gracias por su mensaje", "Necesito su nombre"}

GmailIds == 1..MaxCorreos

VARIABLES
    buzon,       \* IMAP inbox: gmail id -> "ausente" | "no_leido" | "leido"
    mensajes,    \* table mensajes of data/reservas.db
    envios,      \* SMTP send attempts made by enviar_respuesta
    registro,    \* data/logs/mensajes.log
    pcProc,      \* position of procesar_mensajes_nuevos: "idle" | "loop"
    lote,        \* mensajes_nuevos of the running call
    idx,         \* index of the for loop (1-based)
    resultados,  \* the tally map of the running call
    retorno,     \* what the last call of procesar_mensajes_nuevos returned
    entregados,  \* messages handed to procesar_mensaje_individual by the call
    corridas,    \* calls of procesar_mensajes_nuevos started so far (capped)
    reservas,    \* table reservas of data/reservas.db
    consulta,    \* the last call of verificar_disponibilidad and its answer
    conversaciones, \* table conversations of data/conversations.db
    excepcionConv,  \* what the last call of the conversation store raised
    analisis,    \* the last context read from the store and the reply to it
    conf,        \* per thread: its call of _confirm_reservation
    correo,      \* sender and subject of the mail whose id was computed last
    propiedades, \* table propiedades of data/reservas.db
    llamadaReserva, \* the last call of crear_reserva and what it returned
    consultaOpt, \* the last window asked of both availability tests
    procesado,   \* the last call of process_message: the row before, the data
    idsCorreo,   \* the ids computed for it and for a reply to it
    pool,        \* per pooled class: the deque of idle objects of its pool
    llamadaPool, \* the last call on an ObjectPool and how it ended
    cache,       \* QueryCache.cache: key -> (result, timestamp, ttl) or absent
    reloj,       \* time.time(), in ticks
    filas,       \* per table: how many writes its rows have seen
    llamadaCache, \* the last call on the cache or the wrapper and its result
    _pool,       \* ConnectionPool._pool: the list of idle connections
    _in_use,     \* ConnectionPool._in_use
    _lock,       \* ConnectionPool._lock: the thread holding it, or LIBRE
    pcConn,      \* per thread: where it is in get/return_connection
    tiene,       \* per thread: the connections it was handed and holds
    argConn,     \* per thread: the connection it is returning, or 0
    app,         \* OptimizedApplication under main(): position, fields, trace
    monitor,     \* memory_monitor: its fields, its live loops, its last tick
    lazy,        \* a LazyContainer, the threads inside get/unload, the loads
    lista,       \* a MemoryEfficientList: _loaded_chunks and its last read
    cola,        \* an AsyncTaskQueue: queue, active_tasks, results, workers
    objpool      \* an ObjectPool of identified objects and their holders

varsMensajes == <<buzon, mensajes, envios, registro, pcProc, lote, idx,
                  resultados, retorno, entregados, corridas>>

varsReservas == <<reservas, consulta>>

varsConv == <<conversaciones, excepcionConv, analisis>>

varsConfirm == <<conf>>

varsIds == <<correo, idsCorreo>>

varsProceso == <<procesado>>

varsPrecios == <<propiedades, llamadaReserva>>

varsOpt == <<consultaOpt>>

varsPool == <<pool, llamadaPool>>

varsCache == <<cache, reloj, filas, llamadaCache>>

varsConn == <<_pool, _in_use, _lock, pcConn, tiene, argConn>>

varsApp == <<app>>

varsTarde == <<monitor, lazy, lista, cola, objpool>>

varsInfra == <<varsPool, varsCache, varsConn, varsApp, varsTarde>>

varsNoInfra == <<varsMensajes, varsReservas, varsConv, varsConfirm, varsIds,
                 varsProceso, varsPrecios, varsOpt, varsTarde>>

varsNoTarde == <<varsMensajes, varsReservas, varsConv, varsConfirm, varsIds,
                 varsProceso, varsPrecios, varsOpt, varsPool, varsCache,
                 varsConn, varsApp>>

varsUtil == <<varsIds, varsProceso, varsPrecios, varsOpt, varsInfra>>

vars == <<varsMensajes, varsReservas, varsConv, varsConfirm, varsUtil>>

(***************************************************************************)
(* Helpers                                                                 *)
(***************************************************************************)
Min(a, b) == IF a <= b THEN a ELSE b

RECURSIVE Ascendente(_)
\* the elements of a finite set of integers, ascending
Ascendente(S) ==
    IF S = {} THEN <<>>
    ELSE LET m == CHOOSE x \in S : \A y \in S : x <= y
         IN  <<m>> \o Ascendente(S \ {m})

Prefijo(s, n) == SubSeq(s, 1, Min(n, Len(s)))

(***************************************************************************)
(* db/database.py: table mensajes                                          *)
(***************************************************************************)
\* INSERT INTO mensajes (remitente, asunto, cuerpo): respondido defaults to
\* 0, respuesta and motivo_no_respuesta to NULL. The content of the mail is
\* represented by its gmail id.
guardar_mensaje(tabla, g) ==
    Append(tabla, [gmail |-> g, respondido |-> 0,
                   respuesta |-> NULL, motivo_no_respuesta |-> NULL])

\* a motivo that Python treats as false (None or '') takes the else branch
marcar_mensaje_respondido(tabla, id, respuesta, motivo) ==
    IF id \notin DOMAIN tabla THEN tabla
    ELSE IF motivo # NULL /\ motivo # ""
         THEN [tabla EXCEPT ![id].respondido = 1,
                            ![id].respuesta = respuesta,
                            ![id].motivo_no_respuesta = motivo]
         ELSE [tabla EXCEPT ![id].respondido = 1,
                            ![id].respuesta = respuesta]

\* SELECT * FROM mensajes WHERE respondido = 0 AND motivo_no_respuesta IS
\* NOT NULL: the ids of the rows selected
obtener_mensajes_que_requieren_atencion(tabla) ==
    {i \in DOMAIN tabla :
        tabla[i].respondido = 0 /\ tabla[i].motivo_no_respuesta # NULL}

\* SELECT * FROM mensajes WHERE respondido = 0
obtener_mensajes_no_respondidos(tabla) ==
    {i \in DOMAIN tabla : tabla[i].respondido = 0}

(***************************************************************************)
(* core/gmail_handler.py                                                   *)
(***************************************************************************)
\* servidor.search(None, 'UNSEEN'), then ids[:10]
BuscarNoLeidos(bz) ==
    Prefijo(Ascendente({g \in GmailIds : bz[g] = "no_leido"}), LimiteLote)

\* Outcomes of one pass of the for loop of leer_mensajes_para_procesar:
\*   "ok"            fetched (RFC822, which sets \Seen), stored, appended
\*   "no_ok"         status # 'OK' or the fetch raised: skipped, still unseen
\*   "error_leido"   fetched, then the parsing raised: skipped, already seen
ResultadosFetch == {"ok", "no_ok", "error_leido"}

RECURSIVE LeerLote_peek(_, _, _, _, _)
\* as LeerLote, but fetching with BODY.PEEK: the \Seen flag is never set
LeerLote_peek(ids, o, bz, tabla, nuevos) ==
    IF ids = <<>>
    THEN [buzon |-> bz, mensajes |-> tabla, mensajes_nuevos |-> nuevos]
    ELSE LET g == Head(ids) IN
         IF o[g] = "ok"
         THEN LeerLote_peek(Tail(ids), o, bz, guardar_mensaje(tabla, g),
                            Append(nuevos, [id |-> Len(tabla) + 1, id_gmail |-> g]))
         ELSE LeerLote_peek(Tail(ids), o, bz, tabla, nuevos)

RECURSIVE LeerLote(_, _, _, _, _)
LeerLote(ids, o, bz, tabla, nuevos) ==
    IF ids = <<>>
    THEN [buzon |-> bz, mensajes |-> tabla, mensajes_nuevos |-> nuevos]
    ELSE LET g == Head(ids) IN
         IF o[g] = "ok"
         THEN LeerLote(Tail(ids), o, [bz EXCEPT ![g] = "leido"],
                       guardar_mensaje(tabla, g),
                       Append(nuevos, [id |-> Len(tabla) + 1, id_gmail |-> g]))
         ELSE IF o[g] = "error_leido"
         THEN LeerLote(Tail(ids), o, [bz EXCEPT ![g] = "leido"], tabla, nuevos)
         ELSE LeerLote(Tail(ids), o, bz, tabla, nuevos)

\* falla: "ninguna"; "conexion" (connect, login, select or search raised:
\* nothing was fetched); "cierre" (close or logout raised after the loop:
\* the outer except returns [] although the mails were fetched and stored)
FallasConexion == {"ninguna", "conexion", "cierre"}

leer_mensajes_para_procesar(bz, tabla, falla, o) ==
    IF falla = "conexion"
    THEN [buzon |-> bz, mensajes |-> tabla, mensajes_nuevos |-> <<>>]
    ELSE LET r == LeerLote(BuscarNoLeidos(bz), o, bz, tabla, <<>>) IN
         IF falla = "cierre"
         THEN [r EXCEPT !.mensajes_nuevos = <<>>]
         ELSE r

(***************************************************************************)
(* core/message_processor.py                                               *)
(***************************************************************************)
\* as procesar_mensaje_individual, but the row is marked responded before
\* the result of the send is known
procesar_mensaje_individual_marca_antes(m, exc, respuesta, envioOk) ==
    IF exc # SIN_EXCEPCION
    THEN [mensajes |-> marcar_mensaje_respondido(mensajes, m.id,
                                                 TEXTO_REVISION_MANUAL, exc),
          envios |-> envios,
          registro |-> Append(registro,
                              [id |-> m.id, nivel |-> "ERROR", texto |-> exc]),
          resultado |-> [tipo |-> "error", accion |-> "revision_manual"]]
    ELSE [mensajes |-> marcar_mensaje_respondido(mensajes, m.id, respuesta, NULL),
          envios |-> Append(envios, [id |-> m.id, gmail |-> m.id_gmail,
                                     texto |-> respuesta, ok |-> envioOk,
                                     corrida |-> corridas]),
          registro |-> registro,
          resultado |-> [tipo |-> "respuesta_automatica",
                         accion |-> IF envioOk THEN "respondido"
                                               ELSE "error_envio"]]

\* exc: SIN_EXCEPCION, or str(e) of the exception raised by analyze_message
\* or generate_response; respuesta: the text generate_response returned;
\* envioOk: what enviar_respuesta returned (it catches its own exceptions).
procesar_mensaje_individual(m, exc, respuesta, envioOk) ==
    IF exc # SIN_EXCEPCION
    THEN [mensajes |-> marcar_mensaje_respondido(mensajes, m.id,
                                                 TEXTO_REVISION_MANUAL, exc),
          envios |-> envios,
          registro |-> Append(registro,
                              [id |-> m.id, nivel |-> "ERROR", texto |-> exc]),
          resultado |-> [tipo |-> "error", accion |-> "revision_manual"]]
    ELSE IF envioOk
    THEN [mensajes |-> marcar_mensaje_respondido(mensajes, m.id, respuesta, NULL),
          envios |-> Append(envios, [id |-> m.id, gmail |-> m.id_gmail,
                                     texto |-> respuesta, ok |-> TRUE,
                                     corrida |-> corridas]),
          registro |-> registro,
          resultado |-> [tipo |-> "respuesta_automatica", accion |-> "respondido"]]
    ELSE [mensajes |-> mensajes,
          envios |-> Append(envios, [id |-> m.id, gmail |-> m.id_gmail,
                                     texto |-> respuesta, ok |-> FALSE,
                                     corrida |-> corridas]),
          registro |-> registro,
          resultado |-> [tipo |-> "respuesta_automatica", accion |-> "error_envio"]]

ResultadosCero ==
    [respondidos_auto |-> 0, requieren_revision |-> 0, errores |-> 0]

Contar(res, accion) ==
    IF accion = "respondido"
    THEN [res EXCEPT !.respondidos_auto = @ + 1]
    ELSE IF accion = "revision_manual"
    THEN [res EXCEPT !.requieren_revision = @ + 1]
    ELSE res

\* New mail arrives in the inbox (environment).
Llegar(g) ==
    /\ buzon[g] = "ausente"
    /\ buzon' = [buzon EXCEPT ![g] = "no_leido"]
    /\ UNCHANGED <<mensajes, envios, registro, pcProc, lote, idx, resultados,
                   retorno, entregados, corridas>>
    /\ UNCHANGED <<varsReservas, varsConv, varsConfirm, varsUtil>>

\* procesar_mensajes_nuevos up to the for loop: the fetch, the empty tally
\* and the early return on an empty batch.
IniciarProcesamiento ==
    /\ pcProc = "idle"
    /\ \E falla \in FallasConexion, o \in [{g \in GmailIds : buzon[g] = "no_leido"} -> ResultadosFetch] :
          LET r == leer_mensajes_para_procesar(buzon, mensajes, falla, o) IN
          /\ buzon' = r.buzon
          /\ mensajes' = r.mensajes
          /\ lote' = r.mensajes_nuevos
          /\ resultados' = ResultadosCero
          /\ entregados' = <<>>
          /\ corridas' = Min(corridas + 1, MaxCorridas)
          /\ IF r.mensajes_nuevos = <<>>
             THEN /\ pcProc' = "idle"
                  /\ idx' = 0
                  /\ retorno' = [tipo |-> "resultados", valor |-> ResultadosCero]
             ELSE /\ pcProc' = "loop"
                  /\ idx' = 1
                  /\ retorno' = [tipo |-> "en_curso", valor |-> ResultadosCero]
    /\ UNCHANGED <<envios, registro>>
    /\ UNCHANGED <<varsReservas, varsConv, varsConfirm, varsUtil>>

\* as IterarLote, but without any try/except around the message: the
\* exception of one message reaches the outer except, which returns None
IterarLote_sin_aislar(exc, respuesta, envioOk) ==
    /\ pcProc = "loop"
    /\ idx \in DOMAIN lote
    /\ LET m == lote[idx]
           r == procesar_mensaje_individual(m, SIN_EXCEPCION, respuesta, envioOk)
           res == Contar(resultados, r.resultado.accion)
       IN  IF exc # SIN_EXCEPCION
           THEN /\ registro' = Append(registro, [id |-> 0, nivel |-> "ERROR",
                                                 texto |-> exc])
                /\ entregados' = Append(entregados, m.id)
                /\ pcProc' = "idle"
                /\ idx' = 0
                /\ retorno' = [tipo |-> "None", valor |-> ResultadosCero]
                /\ UNCHANGED <<mensajes, envios, resultados>>
           ELSE /\ mensajes' = r.mensajes
                /\ envios' = r.envios
                /\ registro' = Append(r.registro,
                                      [id |-> m.id, nivel |-> "INFO",
                                       texto |-> r.resultado.accion])
                /\ entregados' = Append(entregados, m.id)
                /\ resultados' = res
                /\ IF idx = Len(lote)
                   THEN /\ pcProc' = "idle"
                        /\ idx' = 0
                        /\ retorno' = [tipo |-> "resultados", valor |-> res]
                   ELSE /\ pcProc' = "loop"
                        /\ idx' = idx + 1
                        /\ UNCHANGED retorno
    /\ UNCHANGED <<buzon, lote, corridas>>
    /\ UNCHANGED <<varsReservas, varsConv, varsConfirm, varsUtil>>

\* One pass of the for loop of procesar_mensajes_nuevos; after the last
\* message the call returns the tally.
IterarLote(exc, respuesta, envioOk) ==
    /\ pcProc = "loop"
    /\ idx \in DOMAIN lote
    /\ LET m == lote[idx]
           r == procesar_mensaje_individual(m, exc, respuesta, envioOk)
           res == Contar(resultados, r.resultado.accion)
       IN  /\ mensajes' = r.mensajes
           /\ envios' = r.envios
           /\ registro' = Append(r.registro,
                                 [id |-> m.id, nivel |-> "INFO",
                                  texto |-> r.resultado.accion])
           /\ entregados' = Append(entregados, m.id)
           /\ resultados' = res
           /\ IF idx = Len(lote)
              THEN /\ pcProc' = "idle"
                   /\ idx' = 0
                   /\ retorno' = [tipo |-> "resultados", valor |-> res]
              ELSE /\ pcProc' = "loop"
                   /\ idx' = idx + 1
                   /\ UNCHANGED retorno
    /\ UNCHANGED <<buzon, lote, corridas>>
    /\ UNCHANGED <<varsReservas, varsConv, varsConfirm, varsUtil>>

ProcesarSiguiente ==
    \E exc \in Excepciones \cup {SIN_EXCEPCION}, respuesta \in Respuestas,
       envioOk \in BOOLEAN :
        IterarLote(exc, respuesta, envioOk)

(***************************************************************************)
(* db/database.py: table reservas                                          *)
(*                                                                         *)
(* A date is the rank of its text in SQLite's text order: VACIO is the     *)
(* empty string (smaller than every other text), 1..MaxFecha are ISO       *)
(* dates; NULO is SQL NULL. A row carries the columns the availability     *)
(* test reads (propiedad_id, fecha_inicio, fecha_fin, estado); huesped,    *)
(* correo, telefono and precio_total are not represented.                  *)
(***************************************************************************)
VACIO == 0
NULO == -1
Fechas == 1..MaxFecha
Propiedades == {1, 2}
Estados == {"confirmada", "pendiente", "cancelada"}

\* SQL's three-valued logic: "T", "F" and "U" (NULL)
SqlLt(a, b) == IF a = NULO \/ b = NULO THEN "U" ELSE IF a < b THEN "T" ELSE "F"
SqlGt(a, b) == SqlLt(b, a)
SqlOr(x, y) ==
    IF x = "T" \/ y = "T" THEN "T" ELSE IF x = "U" \/ y = "U" THEN "U" ELSE "F"
SqlAnd(x, y) ==
    IF x = "F" \/ y = "F" THEN "F" ELSE IF x = "U" \/ y = "U" THEN "U" ELSE "T"
SqlNot(x) == IF x = "T" THEN "F" ELSE IF x = "F" THEN "T" ELSE "U"
SqlBool(b) == IF b THEN "T" ELSE "F"

\* the WHERE clause with its strict comparisons replaced by <= and >= (a stay
\* that only touches the boundary day is let through)
DondeConflicto_semiabierto(r, propiedad_id, fecha_inicio, fecha_fin) ==
    SqlAnd(SqlAnd(SqlBool(r.propiedad_id = propiedad_id),
                  SqlBool(r.estado \in {"confirmada", "pendiente"})),
           SqlNot(SqlOr(SqlOr(SqlLt(r.fecha_fin, fecha_inicio),
                              SqlBool(r.fecha_fin = fecha_inicio)),
                        SqlOr(SqlGt(r.fecha_inicio, fecha_fin),
                              SqlBool(r.fecha_inicio = fecha_fin)))))

\* WHERE propiedad_id = ? AND estado IN ('confirmada', 'pendiente')
\*   AND NOT (fecha_fin < ? OR fecha_inicio > ?)
DondeConflicto(r, propiedad_id, fecha_inicio, fecha_fin) ==
    SqlAnd(SqlAnd(SqlBool(r.propiedad_id = propiedad_id),
                  SqlBool(r.estado \in {"confirmada", "pendiente"})),
           SqlNot(SqlOr(SqlLt(r.fecha_fin, fecha_inicio),
                        SqlGt(r.fecha_inicio, fecha_fin))))

verificar_disponibilidad(tabla, propiedad_id, fecha_inicio, fecha_fin) ==
    LET data == {k \in DOMAIN tabla :
                    DondeConflicto(tabla[k], propiedad_id,
                                   fecha_inicio, fecha_fin) = "T"}
    IN  Cardinality(data) = 0

\* the nightly prices a property is added with: NULO is SQL NULL
PreciosNoche == {NULO, 0, 30000}

\* SELECT precio_noche FROM propiedades WHERE id = ?: fetchone() is None
\* when there is no such property
HayPropiedad(props, propiedad_id) == propiedad_id \in DOMAIN props

\* datetime.strptime(fecha, '%Y-%m-%d') raises for '' and for None
FechaValida(fecha) == fecha \in Fechas

\* (fin - inicio).days
Noches(fecha_inicio, fecha_fin) == fecha_fin - fecha_inicio

\* INSERT INTO reservas (...): fecha_inicio and fecha_fin are NOT NULL, a
\* NULL date raises sqlite3.IntegrityError and nothing is inserted.
\* precio_total is 0 when the property has no row or no price, when a date
\* does not parse (bare except) and when noches <= 0.
\* reservation_id is cursor.lastrowid.
crear_reserva_con_detalles(tabla, props, propiedad_id, fecha_inicio, fecha_fin, estado) ==
    LET precio_noche == IF HayPropiedad(props, propiedad_id)
                        THEN props[propiedad_id].precio_noche ELSE 0
        precio_total ==
            IF precio_noche # NULO /\ precio_noche # 0
            THEN IF FechaValida(fecha_inicio) /\ FechaValida(fecha_fin)
                 THEN IF Noches(fecha_inicio, fecha_fin) > 0
                      THEN Noches(fecha_inicio, fecha_fin) * precio_noche
                      ELSE 0
                 ELSE 0
            ELSE 0
    IN
    IF fecha_inicio = NULO \/ fecha_fin = NULO
    THEN [reservas |-> tabla, reservation_id |-> 0, excepcion |-> TRUE]
    ELSE [reservas |-> Append(tabla, [propiedad_id |-> propiedad_id,
                                      fecha_inicio |-> fecha_inicio,
                                      fecha_fin |-> fecha_fin,
                                      estado |-> estado,
                                      precio_total |-> precio_total]),
          reservation_id |-> Len(tabla) + 1,
          excepcion |-> FALSE]

\* noches counted with both end days
crear_reserva_dias_inclusive(tabla, props, propiedad_id, fecha_inicio, fecha_fin) ==
    IF ~HayPropiedad(props, propiedad_id)
          \/ ~FechaValida(fecha_inicio) \/ ~FechaValida(fecha_fin)
    THEN [reservas |-> tabla, reserva_id |-> 0, excepcion |-> TRUE]
    ELSE LET precio_noche == props[propiedad_id].precio_noche
             noches == Noches(fecha_inicio, fecha_fin) + 1
             precio_total ==
                 IF precio_noche # NULO /\ precio_noche # 0
                 THEN noches * precio_noche ELSE 0
         IN  [reservas |-> Append(tabla, [propiedad_id |-> propiedad_id,
                                          fecha_inicio |-> fecha_inicio,
                                          fecha_fin |-> fecha_fin,
                                          estado |-> "pendiente",
                                          precio_total |-> precio_total]),
              reserva_id |-> Len(tabla) + 1,
              excepcion |-> FALSE]

\* crear_reserva: fetchone()[0] raises TypeError when the property has no
\* row, strptime raises when a date does not parse; then nothing is
\* inserted. The INSERT names no estado: the column default 'pendiente'.
crear_reserva(tabla, props, propiedad_id, fecha_inicio, fecha_fin) ==
    IF ~HayPropiedad(props, propiedad_id)
          \/ ~FechaValida(fecha_inicio) \/ ~FechaValida(fecha_fin)
    THEN [reservas |-> tabla, reserva_id |-> 0, excepcion |-> TRUE]
    ELSE LET precio_noche == props[propiedad_id].precio_noche
             noches == Noches(fecha_inicio, fecha_fin)
             precio_total ==
                 IF precio_noche # NULO /\ precio_noche # 0
                 THEN noches * precio_noche ELSE 0
         IN  [reservas |-> Append(tabla, [propiedad_id |-> propiedad_id,
                                          fecha_inicio |-> fecha_inicio,
                                          fecha_fin |-> fecha_fin,
                                          estado |-> "pendiente",
                                          precio_total |-> precio_total]),
              reserva_id |-> Len(tabla) + 1,
              excepcion |-> FALSE]

\* agregar_propiedad: the new row gets the next id
agregar_propiedad(props, precio_noche) ==
    Append(props, [precio_noche |-> precio_noche])

SinLlamadaReserva ==
    [hecha |-> FALSE, propiedad_id |-> 0, fecha_inicio |-> 0, fecha_fin |-> 0,
     excepcion |-> FALSE, reserva_id |-> 0]

AgregarPropiedad(precio_noche) ==
    /\ Len(propiedades) < Cardinality(Propiedades)
    /\ propiedades' = agregar_propiedad(propiedades, precio_noche)
    /\ llamadaReserva' = SinLlamadaReserva
    /\ UNCHANGED <<varsMensajes, varsReservas, varsConv, varsConfirm, varsIds,
                   varsProceso, varsOpt,
                   varsInfra>>

CrearReserva(p, i, f) ==
    /\ Len(reservas) < MaxReservas
    /\ LET r == crear_reserva(reservas, propiedades, p, i, f) IN
       /\ reservas' = r.reservas
       /\ llamadaReserva' = [hecha |-> TRUE, propiedad_id |-> p,
                             fecha_inicio |-> i, fecha_fin |-> f,
                             excepcion |-> r.excepcion,
                             reserva_id |-> r.reserva_id]
    /\ UNCHANGED <<consulta, propiedades>>
    /\ UNCHANGED <<varsMensajes, varsConv, varsConfirm, varsIds, varsProceso,
                   varsOpt,
                   varsInfra>>

InitPrecios ==
    /\ propiedades = <<>>
    /\ llamadaReserva = SinLlamadaReserva

NextPrecios ==
    \/ \E precio \in PreciosNoche : AgregarPropiedad(precio)
    \/ \E p \in Propiedades, i \in Fechas \cup {VACIO}, f \in Fechas :
          CrearReserva(p, i, f)

SinConsulta ==
    [hecha |-> FALSE, propiedad_id |-> 0, fecha_inicio |-> 0, fecha_fin |-> 0,
     disponible |-> FALSE, filas |-> 0]

\* A caller inserts a reservation (a stay with inicio <= fin) with an
\* explicit estado.
CrearReservaConDetalles(p, i, f, estado) ==
    /\ Len(reservas) < MaxReservas
    /\ i <= f
    /\ LET r == crear_reserva_con_detalles(reservas, propiedades, p, i, f, estado) IN
       reservas' = r.reservas
    /\ consulta' = SinConsulta
    /\ UNCHANGED <<varsMensajes, varsConv, varsConfirm, varsUtil>>

\* A caller asks for the availability of a window; one call is followed
\* per content of the table, a second call would read the same rows.
VerificarDisponibilidad(p, i, f) ==
    /\ ~consulta.hecha
    /\ consulta' = [hecha |-> TRUE, propiedad_id |-> p, fecha_inicio |-> i,
                    fecha_fin |-> f,
                    disponible |-> verificar_disponibilidad(reservas, p, i, f),
                    filas |-> Len(reservas)]
    /\ UNCHANGED reservas
    /\ UNCHANGED <<varsMensajes, varsConv, varsConfirm, varsUtil>>

InitReservas ==
    /\ reservas = <<>>
    /\ consulta = SinConsulta

NextReservas ==
    \/ \E p \in Propiedades, i \in Fechas, f \in Fechas, e \in Estados :
          CrearReservaConDetalles(p, i, f, e)
    \/ \E p \in Propiedades, i \in Fechas, f \in Fechas :
          VerificarDisponibilidad(p, i, f)

(***************************************************************************)
(* db/conversation_db.py                                                   *)
(*                                                                         *)
(* A Python value is a pair <<type, text>>: <<"null", "">> is None,        *)
(* <<"text", s>> the str s and <<"int", d>> the int written d.             *)
(***************************************************************************)
NULLC == <<"null", "">>
Txt(s) == <<"text", s>>
Entero(d) == <<"int", d>>
\* the texts that SQLite reads as an integer literal
Numerales == {"0", "1", "2"}

\* Python's truth value of a value read from the store
Falso(v) == v = NULLC \/ v = Txt("") \/ v = Entero("0")

\* A subject is a sequence of tokens: a reply or forward prefix as the mail
\* client writes it, the blank " " (one whitespace character) or a word; a
\* sender is one word. lower() maps each token.
Minuscula(w) ==
    CASE w = "Maria@Gmail.com" -> "maria@gmail.com"
      [] w = "Re:" -> "re:"
      [] w = "RE:" -> "re:"
      [] w = "Fwd:" -> "fwd:"
      [] w = "FW:" -> "fw:"
      [] w = "Reserva" -> "reserva"
      [] w = "Consulta" -> "consulta"
      [] OTHER -> w
Minusculas(ws) == [k \in DOMAIN ws |-> Minuscula(ws[k])]

\* str.strip(): the blanks at both ends are dropped
RECURSIVE LStrip(_)
LStrip(ws) == IF ws # <<>> /\ Head(ws) = " " THEN LStrip(Tail(ws)) ELSE ws
RECURSIVE RStrip(_)
RStrip(ws) ==
    IF ws # <<>> /\ ws[Len(ws)] = " " THEN RStrip(SubSeq(ws, 1, Len(ws) - 1))
    ELSE ws
Strip(ws) == RStrip(LStrip(ws))

\* re.sub(r'^(re|fw|fwd):\s*', '', ...): one leading prefix and the blanks
\* after it are removed
QuitarPrefijo(ws) ==
    IF ws # <<>> /\ Head(ws) \in {"re:", "fw:", "fwd:"} THEN LStrip(Tail(ws))
    ELSE ws

\* f"{remitente.lower()}|{clean_subject}"
conversation_key(remitente, clean_subject) ==
    <<Minuscula(remitente), "|">> \o clean_subject

\* hashlib.md5(key.encode()).hexdigest()[:12]: the digest is not computed,
\* the id of a key is the key (equal keys have equal ids; distinct keys of
\* the model are taken to have distinct digests)
Md5Hex12(key) == key

get_conversation_id(remitente, asunto) ==
    LET clean_subject == QuitarPrefijo(Strip(Minusculas(asunto))) IN
    Md5Hex12(conversation_key(remitente, clean_subject))

\* core/conversation_flow.py
ConversationFlow_get_conversation_id(client_email, subject) ==
    LET clean_subject == QuitarPrefijo(Strip(Minusculas(subject))) IN
    Md5Hex12(conversation_key(client_email, clean_subject))

\* utils/conversation_tracker.py
ConversationTracker_generate_conversation_id(client_email, subject) ==
    LET clean_subject == QuitarPrefijo(Strip(Minusculas(subject))) IN
    Md5Hex12(conversation_key(client_email, clean_subject))

Columnas ==
    {"nombre_cliente", "propiedad", "propiedad_id", "check_in", "check_out",
     "numero_huespedes", "correo_cliente", "telefono_cliente", "confirmacion",
     "estado"}

allowed_fields ==
    {"nombre_cliente", "propiedad", "propiedad_id", "check_in", "check_out",
     "numero_huespedes", "correo_cliente", "telefono_cliente", "confirmacion",
     "estado"}

\* the declared type of a column decides its affinity
Afinidad(campo) ==
    IF campo \in {"propiedad_id", "numero_huespedes"} THEN "INTEGER"
    ELSE IF campo \in {"check_in", "check_out"} THEN "NUMERIC"
    ELSE "TEXT"

\* what SQLite stores (and Python reads back) for a bound value: a TEXT
\* column turns an int into its text, an INTEGER or NUMERIC column turns a
\* text that is an integer literal into the int
Almacenar(campo, v) ==
    IF Afinidad(campo) = "TEXT"
    THEN IF v[1] = "int" THEN Txt(v[2]) ELSE v
    ELSE IF v[1] = "text" /\ v[2] \in Numerales THEN Entero(v[2]) ELSE v

\* INSERT INTO conversations (id, asunto, remitente): every other column
\* NULL, estado DEFAULT 'en_progreso'
FilaNueva ==
    [existe |-> TRUE,
     datos |-> [c \in Columnas |->
                  IF c = "estado" THEN Txt("en_progreso") ELSE NULLC]]

SinFila == [existe |-> FALSE, datos |-> [c \in Columnas |-> NULLC]]

\* the new table and the id returned (an existing row only gets a new
\* updated_at, which the model does not keep)
create_or_update_conversation(tabla, remitente, asunto) ==
    LET conversation_id == get_conversation_id(remitente, asunto) IN
    [conversaciones |->
        IF tabla[conversation_id].existe THEN tabla
        ELSE [tabla EXCEPT ![conversation_id] = FilaNueva],
     conversation_id |-> conversation_id]

get_conversation(tabla, conversation_id) == tabla[conversation_id]

\* UPDATE conversations SET field = ? WHERE id = ?: no row, no change. A
\* field outside allowed_fields raises ValueError.
update_conversation_field(tabla, conversation_id, field, value) ==
    IF field \notin allowed_fields
    THEN [conversaciones |-> tabla, excepcion |-> "ValueError"]
    ELSE [conversaciones |->
            IF tabla[conversation_id].existe
            THEN [tabla EXCEPT ![conversation_id].datos[field] =
                                    Almacenar(field, value)]
            ELSE tabla,
          excepcion |-> "ninguna"]

TodosLosCampos ==
    <<"nombre_cliente", "propiedad", "check_in", "check_out",
      "numero_huespedes", "correo_cliente">>

\* a test "is None" in place of Python's truth value
AgregarSiFalta_solo_nulo(faltantes, conversation, campo) ==
    IF conversation.datos[campo] = NULLC THEN Append(faltantes, campo)
    ELSE faltantes

\* the chain of six "if not conversation.get(campo): faltantes.append"
AgregarSiFalta(faltantes, conversation, campo) ==
    IF Falso(conversation.datos[campo]) THEN Append(faltantes, campo)
    ELSE faltantes

get_missing_fields(tabla, conversation_id) ==
    LET conversation == get_conversation(tabla, conversation_id) IN
    IF ~conversation.existe THEN TodosLosCampos
    ELSE LET f1 == AgregarSiFalta(<<>>, conversation, "nombre_cliente")
             f2 == AgregarSiFalta(f1, conversation, "propiedad")
             f3 == AgregarSiFalta(f2, conversation, "check_in")
             f4 == AgregarSiFalta(f3, conversation, "check_out")
             f5 == AgregarSiFalta(f4, conversation, "numero_huespedes")
             f6 == AgregarSiFalta(f5, conversation, "correo_cliente")
         IN  f6

SI == Txt("sí")

is_confirmed(tabla, conversation_id) ==
    LET conversation == get_conversation(tabla, conversation_id) IN
    IF conversation.existe THEN conversation.datos["confirmacion"] = SI
    ELSE FALSE

(***************************************************************************)
(* core/conversation_manager.py, core/response_generator.py                *)
(***************************************************************************)
\* None when the store has no row for the id
get_conversation_context(tabla, conversation_id) ==
    LET conversation == get_conversation(tabla, conversation_id) IN
    IF conversation.existe
    THEN [existe |-> TRUE,
          data |-> conversation.datos,
          faltantes |-> get_missing_fields(tabla, conversation_id),
          confirmada |-> is_confirmed(tabla, conversation_id)]
    ELSE [existe |-> FALSE,
          data |-> SinFila.datos,
          faltantes |-> <<>>,
          confirmada |-> FALSE]

\* A reply is its kind, its fixed texts and the conversation values it
\* interpolates.
Respuesta(tipo, partes, datos) ==
    [tipo |-> tipo, partes |-> partes, datos |-> datos]

generate_general_response ==
    Respuesta("general",
              <<"Gracias por su mensaje. Hemos recibido su consulta y la revisaremos a la brevedad.">>,
              <<>>)

RESPUESTA_YA_CONFIRMADA ==
    Respuesta("ya_confirmada",
              <<"Su reserva ya ha sido confirmada. Pronto recibirá los detalles por correo.">>,
              <<>>)

messages ==
    [nombre_cliente |-> "Para proceder con la reserva, necesito saber su nombre completo.",
     propiedad |-> "¿Qué propiedad le interesa reservar?",
     check_in |-> "¿Para qué fecha desea comenzar su estadía?",
     check_out |-> "¿Hasta qué fecha desea su estadía?",
     numero_huespedes |-> "¿Cuántas personas se alojarán?",
     correo_cliente |-> "¿Cuál es su correo electrónico para enviar la confirmación?"]

\* the if / elif chain of the list message: a field it does not know adds
\* nothing
fields_text(faltantes) ==
    LET nombre(field) ==
            CASE field = "nombre_cliente" -> <<"su nombre">>
              [] field = "propiedad" -> <<"la propiedad">>
              [] field = "check_in" -> <<"la fecha de inicio">>
              [] field = "check_out" -> <<"la fecha de fin">>
              [] field = "numero_huespedes" -> <<"el número de huéspedes">>
              [] field = "correo_cliente" -> <<"su correo">>
              [] OTHER -> <<>>
        RECURSIVE unir(_)
        unir(fs) == IF fs = <<>> THEN <<>> ELSE nombre(Head(fs)) \o unir(Tail(fs))
    IN  unir(faltantes)

request_missing_fields(faltantes) ==
    IF Len(faltantes) = 1
    THEN LET field == faltantes[1] IN
         IF field \in DOMAIN messages
         THEN Respuesta("pregunta", <<messages[field]>>, <<>>)
         ELSE Respuesta("pregunta", <<"Necesito que me indique", field>>, <<>>)
    ELSE Respuesta("lista", fields_text(faltantes), <<>>)

suggest_confirmation(conversation_data) ==
    Respuesta("propuesta_confirmacion",
              <<"¿Desea confirmar esta reserva?">>,
              <<conversation_data["propiedad"], conversation_data["check_in"],
                conversation_data["check_out"],
                conversation_data["numero_huespedes"],
                conversation_data["nombre_cliente"]>>)

\* the missing-field test placed before the confirmed test
generate_response_faltantes_primero(analysis) ==
    LET context == analysis.context IN
    IF ~context.existe THEN generate_general_response
    ELSE IF context.faltantes # <<>>
         THEN request_missing_fields(context.faltantes)
         ELSE IF context.confirmada THEN RESPUESTA_YA_CONFIRMADA
              ELSE suggest_confirmation(context.data)

generate_response(analysis) ==
    LET context == analysis.context IN
    IF ~context.existe THEN generate_general_response
    ELSE IF context.confirmada THEN RESPUESTA_YA_CONFIRMADA
         ELSE IF context.faltantes = <<>>
              THEN suggest_confirmation(context.data)
              ELSE request_missing_fields(context.faltantes)

\* the senders and subjects of the mails of one thread, the id they all
\* get, and the id of a conversation nobody opens
Remitentes == {"Maria@Gmail.com", "maria@gmail.com"}
Asuntos == {<<"Reserva">>, <<"RE:", "Reserva">>, <<"Re:", "reserva">>}
IdDelHilo == get_conversation_id("maria@gmail.com", <<"Reserva">>)
IdDesconocido == get_conversation_id("otro@gmail.com", <<"Consulta">>)
ConvIds ==
    {get_conversation_id(r, a) : r \in Remitentes, a \in Asuntos}
        \cup {IdDesconocido}

\* the values a caller passes to update_conversation_field
ValoresDe(field) ==
    {NULLC} \cup
    CASE field = "nombre_cliente" -> {Txt(""), Entero("0"), Txt("Juan")}
      [] field = "propiedad" -> {Txt("Depa Isla Teja")}
      [] field = "correo_cliente" -> {Txt(""), Txt("juan@example.com")}
      [] field = "check_in" -> {Txt("0"), Txt("2024-12-10")}
      [] field = "check_out" -> {Txt("2024-12-12")}
      [] field = "numero_huespedes" -> {Txt(""), Entero("0"), Entero("3")}
      [] field = "confirmacion" -> {Txt("sí"), Txt("si")}
      [] field = "estado" -> {Txt("confirmada")}
      [] field = "propiedad_id" -> {Entero("1")}
      [] OTHER -> {Txt("123")}

SinAnalisis ==
    [hecha |-> FALSE, conversation_id |-> IdDesconocido,
     context |-> get_conversation_context([c \in ConvIds |-> SinFila],
                                          IdDesconocido),
     faltantes |-> <<>>, confirmada |-> FALSE,
     respuesta |-> generate_general_response]

CreateOrUpdateConversation(remitente, asunto) ==
    /\ conversaciones' =
          create_or_update_conversation(conversaciones, remitente,
                                        asunto).conversaciones
    /\ excepcionConv' = "ninguna"
    /\ analisis' = SinAnalisis
    /\ UNCHANGED <<varsMensajes, varsReservas, varsConfirm, varsUtil>>

UpdateConversationField(conversation_id, field, value) ==
    LET r == update_conversation_field(conversaciones, conversation_id,
                                       field, value) IN
    /\ conversaciones' = r.conversaciones
    /\ excepcionConv' = r.excepcion
    /\ analisis' = SinAnalisis
    /\ UNCHANGED <<varsMensajes, varsReservas, varsConfirm, varsUtil>>

\* A caller reads the store for an id (get_missing_fields, is_confirmed,
\* get_conversation_context) and the reply is generated from the context.
GenerarRespuesta(conversation_id) ==
    LET context == get_conversation_context(conversaciones, conversation_id) IN
    /\ analisis' =
          [hecha |-> TRUE, conversation_id |-> conversation_id,
           context |-> context,
           faltantes |-> get_missing_fields(conversaciones, conversation_id),
           confirmada |-> is_confirmed(conversaciones, conversation_id),
           respuesta |-> generate_response(
                             [conversation_id |-> conversation_id,
                              context |-> context])]
    /\ excepcionConv' = "ninguna"
    /\ UNCHANGED conversaciones
    /\ UNCHANGED <<varsMensajes, varsReservas, varsConfirm, varsUtil>>

InitConv ==
    /\ conversaciones = [c \in ConvIds |-> SinFila]
    /\ excepcionConv = "ninguna"
    /\ analisis = SinAnalisis

NextConv ==
    \/ \E r \in Remitentes, a \in Asuntos : CreateOrUpdateConversation(r, a)
    \/ \E c \in ConvIds, f \in allowed_fields :
          \E v \in ValoresDe(f) : UpdateConversationField(c, f, v)
    \/ \E c \in ConvIds : UpdateConversationField(c, "precio", Txt("100"))
    \/ \E c \in ConvIds : GenerarRespuesta(c)

(***************************************************************************)
(* core/response_generator.py: _confirm_reservation, one call per thread   *)
(*                                                                         *)
(* conversation_data is the dict the call is given: AUSENTE is a key that  *)
(* is not in it, NULO the value None.                                      *)
(***************************************************************************)
AUSENTE == -2
Hilos == {"h1", "h2"}

DatosConversacion ==
    [propiedad_id : {AUSENTE, NULO} \cup Propiedades,
     check_in : {AUSENTE, NULO, VACIO} \cup Fechas,
     check_out : {AUSENTE, NULO, VACIO} \cup Fechas]

\* dict.get(key, default)
Get(d, key, default) == IF d[key] = AUSENTE THEN default ELSE d[key]

SinLlamada ==
    [pc |-> "idle", conversation_id |-> IdDesconocido, existia |-> FALSE,
     incompleto |-> FALSE, propiedad_id |-> 0, check_in |-> 0, check_out |-> 0,
     disponible |-> "sin_evaluar", excepcion |-> FALSE, fila |-> 0,
     escrituras |-> {}, resultado |-> "ninguno"]

\* return of the call: the locals are dropped
Retornar(c, resultado) ==
    [c EXCEPT !.pc = "retornado", !.resultado = resultado,
              !.propiedad_id = 0, !.check_in = 0, !.check_out = 0]

\* lines 107-113: int(conversation_data.get('propiedad_id', 1)) raises
\* TypeError on None; then the availability test
ConfirmarLlamar(t, conversation_id, conversation_data) ==
    /\ conf[t].pc = "idle"
    /\ LET c0 == [conf[t] EXCEPT
                    !.conversation_id = conversation_id,
                    !.existia = conversaciones[conversation_id].existe,
                    !.incompleto =
                        \/ conversation_data.propiedad_id = AUSENTE
                        \/ conversation_data.check_in = AUSENTE
                        \/ conversation_data.check_out = AUSENTE]
           propiedad_id == Get(conversation_data, "propiedad_id", 1)
           check_in == Get(conversation_data, "check_in", VACIO)
           check_out == Get(conversation_data, "check_out", VACIO)
       IN  IF propiedad_id = NULO
           THEN conf' = [conf EXCEPT ![t] =
                            Retornar([c0 EXCEPT !.excepcion = TRUE], "error")]
           ELSE IF verificar_disponibilidad(reservas, propiedad_id,
                                            check_in, check_out)
                THEN conf' = [conf EXCEPT ![t] =
                                 [c0 EXCEPT !.pc = "crear",
                                            !.propiedad_id = propiedad_id,
                                            !.check_in = check_in,
                                            !.check_out = check_out,
                                            !.disponible = "si"]]
                ELSE conf' = [conf EXCEPT ![t] =
                                 Retornar([c0 EXCEPT !.disponible = "no"],
                                          "no_disponible")]
    /\ UNCHANGED <<varsMensajes, varsReservas, varsConv, varsUtil>>

\* as ConfirmarCrear, with the availability tested again in the transaction
\* of the insert
ConfirmarCrear_reverifica(t) ==
    /\ conf[t].pc = "crear"
    /\ LET c == conf[t]
           r == crear_reserva_con_detalles(reservas, propiedades, c.propiedad_id,
                                           c.check_in, c.check_out,
                                           "confirmada")
       IN  IF ~verificar_disponibilidad(reservas, c.propiedad_id,
                                        c.check_in, c.check_out)
           THEN /\ conf' = [conf EXCEPT ![t] =
                               Retornar([c EXCEPT !.disponible = "no"],
                                        "no_disponible")]
                /\ UNCHANGED reservas
           ELSE IF r.excepcion
           THEN /\ conf' = [conf EXCEPT ![t] =
                               Retornar([c EXCEPT !.excepcion = TRUE], "error")]
                /\ UNCHANGED reservas
           ELSE /\ reservas' = r.reservas
                /\ conf' = [conf EXCEPT ![t] =
                               [c EXCEPT !.pc = "marcar_confirmacion",
                                         !.fila = r.reservation_id]]
    /\ UNCHANGED consulta
    /\ UNCHANGED <<varsMensajes, varsConv, varsUtil>>

\* lines 115-125: crear_reserva_con_detalles(..., estado='confirmada'); an
\* exception of the INSERT goes to the except clause, a reservation_id of 0
\* to the else branch
ConfirmarCrear(t) ==
    /\ conf[t].pc = "crear"
    /\ LET c == conf[t]
           r == crear_reserva_con_detalles(reservas, propiedades, c.propiedad_id,
                                           c.check_in, c.check_out,
                                           "confirmada")
       IN  IF r.excepcion
           THEN /\ conf' = [conf EXCEPT ![t] =
                               Retornar([c EXCEPT !.excepcion = TRUE], "error")]
                /\ UNCHANGED reservas
           ELSE IF r.reservation_id = 0
           THEN /\ conf' = [conf EXCEPT ![t] = Retornar(c, "error")]
                /\ reservas' = r.reservas
           ELSE /\ reservas' = r.reservas
                /\ conf' = [conf EXCEPT ![t] =
                               [c EXCEPT !.pc = "marcar_confirmacion",
                                         !.fila = r.reservation_id]]
    /\ UNCHANGED consulta
    /\ UNCHANGED <<varsMensajes, varsConv, varsUtil>>

\* as ConfirmarMarcarConfirmacion, without the write
ConfirmarMarcarConfirmacion_omitida(t) ==
    /\ conf[t].pc = "marcar_confirmacion"
    /\ conf' = [conf EXCEPT ![t].pc = "marcar_estado",
                            ![t].escrituras = @ \cup {"confirmacion"}]
    /\ UNCHANGED <<conversaciones, excepcionConv, analisis>>
    /\ UNCHANGED <<varsMensajes, varsReservas, varsUtil>>

\* line 127: update_conversation_field(conversation_id, 'confirmacion', 'sí')
ConfirmarMarcarConfirmacion(t) ==
    /\ conf[t].pc = "marcar_confirmacion"
    /\ conversaciones' =
          update_conversation_field(conversaciones, conf[t].conversation_id,
                                    "confirmacion", Txt("sí")).conversaciones
    /\ conf' = [conf EXCEPT ![t].pc = "marcar_estado",
                            ![t].escrituras = @ \cup {"confirmacion"}]
    /\ UNCHANGED <<excepcionConv, analisis>>
    /\ UNCHANGED <<varsMensajes, varsReservas, varsUtil>>

\* lines 128-145: update_conversation_field(conversation_id, 'estado',
\* 'confirmada'), then the confirmation text is returned
ConfirmarMarcarEstado(t) ==
    /\ conf[t].pc = "marcar_estado"
    /\ conversaciones' =
          update_conversation_field(conversaciones, conf[t].conversation_id,
                                    "estado", Txt("confirmada")).conversaciones
    /\ conf' = [conf EXCEPT ![t] =
                   Retornar([conf[t] EXCEPT !.escrituras = @ \cup {"estado"}],
                            "confirmada")]
    /\ UNCHANGED <<excepcionConv, analisis>>
    /\ UNCHANGED <<varsMensajes, varsReservas, varsUtil>>

InitConfirm == conf = [t \in Hilos |-> SinLlamada]

NextConfirm ==
    \/ \E r \in Remitentes, a \in Asuntos : CreateOrUpdateConversation(r, a)
    \/ \E t \in Hilos, d \in DatosConversacion :
          ConfirmarLlamar(t, IdDelHilo, d)
    \/ \E t \in Hilos : ConfirmarCrear(t)
    \/ \E t \in Hilos : ConfirmarMarcarConfirmacion(t)
    \/ \E t \in Hilos : ConfirmarMarcarEstado(t)

(***************************************************************************)
(* The conversation id of a mail and of a reply to it, by the SQL store,   *)
(* ConversationFlow and ConversationTracker                                *)
(***************************************************************************)
Fichas == {" ", "Re:", "fw:", "Fwd:", "Reserva"}
PrefijosRespuesta == {"Re:", "RE:", "Fwd:", "fw:"}

RECURSIVE SeqHasta(_, _)
SeqHasta(S, n) ==
    IF n = 0 THEN {<<>>}
    ELSE LET menores == SeqHasta(S, n - 1) IN
         menores \cup {Append(q, x) : q \in {m \in menores : Len(m) = n - 1},
                                      x \in S}

AsuntosCorreo == SeqHasta(Fichas, MaxAsunto)

Blancos(n) == [k \in 1..n |-> " "]

SinIds ==
    [hecha |-> FALSE, sql |-> <<>>, flow |-> <<>>, tracker |-> <<>>,
     respondida |-> FALSE, remitente_respuesta |-> "", asunto_respuesta |-> <<>>,
     sql_respuesta |-> <<>>]

\* Each of the three stores computes the conversation id of the mail.
CalcularIds ==
    /\ ~idsCorreo.hecha
    /\ idsCorreo' =
          [SinIds EXCEPT
             !.hecha = TRUE,
             !.sql = get_conversation_id(correo.remitente, correo.asunto),
             !.flow = ConversationFlow_get_conversation_id(correo.remitente,
                                                           correo.asunto),
             !.tracker = ConversationTracker_generate_conversation_id(
                             correo.remitente, correo.asunto)]
    /\ UNCHANGED correo
    /\ UNCHANGED <<varsMensajes, varsReservas, varsConv, varsConfirm, varsProceso,
                   varsPrecios, varsOpt,
                   varsInfra>>

\* The sender answers it: the mail client puts a prefix, with blanks around
\* it, before the subject of the mail answered.
CalcularIdRespuesta(remitente, prefijo, antes, despues) ==
    /\ idsCorreo.hecha
    /\ ~idsCorreo.respondida
    /\ Minuscula(remitente) = Minuscula(correo.remitente)
    /\ LET asunto == Blancos(antes) \o <<prefijo>> \o Blancos(despues)
                        \o correo.asunto
       IN  idsCorreo' = [idsCorreo EXCEPT
                     !.respondida = TRUE,
                     !.remitente_respuesta = remitente,
                     !.asunto_respuesta = asunto,
                     !.sql_respuesta = get_conversation_id(remitente, asunto)]
    /\ UNCHANGED correo
    /\ UNCHANGED <<varsMensajes, varsReservas, varsConv, varsConfirm, varsProceso,
                   varsPrecios, varsOpt,
                   varsInfra>>

InitIds ==
    /\ correo = [remitente |-> "maria@gmail.com", asunto |-> <<"Reserva">>]
    /\ idsCorreo = SinIds

\* any mail of the bounded set
InitCorreos ==
    /\ correo \in [remitente : Remitentes, asunto : AsuntosCorreo]
    /\ idsCorreo = SinIds

NextIds ==
    \/ CalcularIds
    \/ \E r \in Remitentes, p \in PrefijosRespuesta, antes \in 0..1,
          despues \in 0..1 : CalcularIdRespuesta(r, p, antes, despues)

(***************************************************************************)
(* core/conversation_manager.py: process_message                           *)
(*                                                                         *)
(* The NLP extractors are not modelled: what they return for a body is an  *)
(* input. extract_dates returns ISO texts, extract_capacity None or an int *)
(* of 1..20, extract_properties / _find_best_property_match a known        *)
(* property or nothing, extract_names a list of texts. The table           *)
(* conversation_messages (add_message_to_conversation) is not represented. *)
(***************************************************************************)
AUSENTE_C == <<"absent", "">>

FechasExtraidas ==
    {<<>>, <<Txt("2024-12-10")>>, <<Txt("2024-12-12"), Txt("2024-12-10")>>}
CapacidadesExtraidas == {NULLC, Entero("3")}
PropiedadesExtraidas == {"ninguna", "mejor"}
NombresExtraidos == {<<>>, <<Txt("")>>, <<Txt("Juan")>>}
TelefonosExtraidos == {NULLC}

\* the order of two ISO date texts
MenorFecha(a, b) == IF a[2] = "2024-12-10" THEN a ELSE b
MayorFecha(a, b) == IF a[2] = "2024-12-10" THEN b ELSE a

\* _extract_email_from_sender: the address in the sender, None for ''
extract_email_from_sender(remitente) ==
    IF remitente = "" THEN NULLC ELSE Txt(remitente)

\* the dict built by _extract_message_data: a key is set only in the
\* branches below
extract_message_data(fechas, capacidad, propiedad, nombres, remitente, telefono) ==
    [c \in Columnas |->
        CASE c = "check_in" ->
                IF Len(fechas) >= 2 THEN MenorFecha(fechas[1], fechas[2])
                ELSE IF Len(fechas) = 1 THEN fechas[1] ELSE AUSENTE_C
          [] c = "check_out" ->
                IF Len(fechas) >= 2 THEN MayorFecha(fechas[1], fechas[2])
                ELSE AUSENTE_C
          [] c = "numero_huespedes" ->
                IF ~Falso(capacidad) THEN capacidad ELSE AUSENTE_C
          [] c = "propiedad" ->
                IF propiedad = "ninguna" THEN AUSENTE_C
                ELSE Txt("Depa Isla Teja")
          [] c = "propiedad_id" ->
                IF propiedad = "mejor" THEN Entero("1") ELSE AUSENTE_C
          [] c = "nombre_cliente" ->
                IF nombres # <<>> THEN nombres[1] ELSE AUSENTE_C
          [] c = "correo_cliente" ->
                IF remitente # "" /\ ~Falso(extract_email_from_sender(remitente))
                THEN extract_email_from_sender(remitente) ELSE AUSENTE_C
          [] c = "telefono_cliente" ->
                IF ~Falso(telefono) THEN telefono ELSE AUSENTE_C
          [] OTHER -> AUSENTE_C]

\* the keys of the dict in the order the code sets them
ClavesExtraidas ==
    <<"check_in", "check_out", "numero_huespedes", "propiedad", "propiedad_id",
      "nombre_cliente", "correo_cliente", "telefono_cliente">>

\* as update_conversation_data, without the test "if value"
RECURSIVE update_conversation_data_sin_filtro(_, _, _, _)
update_conversation_data_sin_filtro(tabla, conversation_id, extracted_data, k) ==
    IF k > Len(ClavesExtraidas) THEN tabla
    ELSE LET key == ClavesExtraidas[k]
             value == extracted_data[key]
             t == IF value # AUSENTE_C
                  THEN update_conversation_field(tabla, conversation_id, key,
                                                 value).conversaciones
                  ELSE tabla
         IN  update_conversation_data_sin_filtro(t, conversation_id,
                                                 extracted_data, k + 1)

\* for key, value in extracted_data.items(): if value: update (an exception
\* of update_conversation_field is caught and the loop goes on)
RECURSIVE update_conversation_data(_, _, _, _)
update_conversation_data(tabla, conversation_id, extracted_data, k) ==
    IF k > Len(ClavesExtraidas) THEN tabla
    ELSE LET key == ClavesExtraidas[k]
             value == extracted_data[key]
             t == IF value # AUSENTE_C /\ ~Falso(value)
                  THEN update_conversation_field(tabla, conversation_id, key,
                                                 value).conversaciones
                  ELSE tabla
         IN  update_conversation_data(t, conversation_id, extracted_data, k + 1)

\* the table after process_message and the id it returns
process_message(tabla, remitente, asunto, extracted_data) ==
    LET r == create_or_update_conversation(tabla, remitente, asunto) IN
    [conversaciones |->
        update_conversation_data(r.conversaciones, r.conversation_id,
                                 extracted_data, 1),
     conversation_id |-> r.conversation_id]

SinProceso ==
    [hecho |-> FALSE, conversation_id |-> IdDesconocido, antes |-> SinFila,
     extracted_data |-> [c \in Columnas |-> AUSENTE_C]]

ProcessMessage(remitente, asunto, fechas, capacidad, propiedad, nombres, telefono) ==
    LET extracted_data ==
            extract_message_data(fechas, capacidad, propiedad, nombres,
                                 remitente, telefono)
        r == process_message(conversaciones, remitente, asunto, extracted_data)
    IN  /\ conversaciones' = r.conversaciones
        /\ procesado' = [hecho |-> TRUE,
                         conversation_id |-> r.conversation_id,
                         antes |-> conversaciones[r.conversation_id],
                         extracted_data |-> extracted_data]
        /\ UNCHANGED <<excepcionConv, analisis>>
        /\ UNCHANGED <<varsMensajes, varsReservas, varsConfirm, varsIds, varsPrecios,
                       varsOpt,
                   varsInfra>>

InitProceso == procesado = SinProceso

NextProceso ==
    \E r \in Remitentes, f \in FechasExtraidas, c \in CapacidadesExtraidas,
       p \in PropiedadesExtraidas, n \in NombresExtraidos,
       t \in TelefonosExtraidos :
        ProcessMessage(r, <<"Re:", " ", "Reserva">>, f, c, p, n, t)

(***************************************************************************)
(* db/optimized_database.py: verificar_disponibilidad_optimized on a cache *)
(* miss                                                                    *)
(***************************************************************************)
SqlLe(a, b) == SqlNot(SqlGt(a, b))
SqlGe(a, b) == SqlNot(SqlLt(a, b))
SqlNe(a, b) == IF a = b THEN "F" ELSE "T"

\* WHERE propiedad_id = ? AND estado != 'cancelada'
\*   AND ((fecha_inicio <= ? AND fecha_fin > ?)
\*     OR (fecha_inicio < ? AND fecha_fin >= ?)
\*     OR (fecha_inicio >= ? AND fecha_fin <= ?))
\* bound to (fecha_inicio, fecha_inicio, fecha_fin, fecha_fin, fecha_inicio,
\* fecha_fin)
DondeConflictoOptimizado(r, propiedad_id, fecha_inicio, fecha_fin) ==
    SqlAnd(SqlAnd(SqlBool(r.propiedad_id = propiedad_id),
                  SqlNe(r.estado, "cancelada")),
           SqlOr(SqlOr(SqlAnd(SqlLe(r.fecha_inicio, fecha_inicio),
                              SqlGt(r.fecha_fin, fecha_inicio)),
                       SqlAnd(SqlLt(r.fecha_inicio, fecha_fin),
                              SqlGe(r.fecha_fin, fecha_fin))),
                 SqlAnd(SqlGe(r.fecha_inicio, fecha_inicio),
                        SqlLe(r.fecha_fin, fecha_fin))))

verificar_disponibilidad_optimized(tabla, propiedad_id, fecha_inicio, fecha_fin) ==
    LET conflictos == Cardinality({k \in DOMAIN tabla :
                          DondeConflictoOptimizado(tabla[k], propiedad_id,
                                                   fecha_inicio, fecha_fin)
                             = "T"})
    IN  conflictos = 0

\* the windows asked: they may end after the last stored day
FechasConsulta == 1..(MaxFecha + 1)

SinConsultaOpt ==
    [hecha |-> FALSE, propiedad_id |-> 0, fecha_inicio |-> 0, fecha_fin |-> 0,
     primaria |-> FALSE, optimizada |-> FALSE]

\* A caller asks both tests for a window (inicio <= fin) over the same
\* table, the optimized one with an empty cache.
VerificarAmbas(p, i, f) ==
    /\ i <= f
    /\ consultaOpt' =
          [hecha |-> TRUE, propiedad_id |-> p, fecha_inicio |-> i,
           fecha_fin |-> f,
           primaria |-> verificar_disponibilidad(reservas, p, i, f),
           optimizada |-> verificar_disponibilidad_optimized(reservas, p, i, f)]
    /\ UNCHANGED <<varsMensajes, varsReservas, varsConv, varsConfirm, varsIds,
                   varsProceso, varsPrecios, varsInfra>>

\* A stay is stored, the last answer is forgotten.
CrearReservaParaConsulta(p, i, f, estado) ==
    /\ Len(reservas) < MaxReservas
    /\ i <= f
    /\ reservas' = crear_reserva_con_detalles(reservas, propiedades, p, i, f,
                                              estado).reservas
    /\ consultaOpt' = SinConsultaOpt
    /\ UNCHANGED consulta
    /\ UNCHANGED <<varsMensajes, varsConv, varsConfirm, varsIds, varsProceso,
                   varsPrecios, varsInfra>>

InitOpt == consultaOpt = SinConsultaOpt

NextOpt ==
    \/ \E p \in Propiedades, i \in Fechas, f \in Fechas, e \in Estados :
          CrearReservaParaConsulta(p, i, f, e)
    \/ \E p \in Propiedades, i \in FechasConsulta, f \in FechasConsulta :
          VerificarAmbas(p, i, f)

(***************************************************************************)
(* utils/memory_optimizer.py: ObjectPool, the module's pools and           *)
(* return_to_pool                                                          *)
(***************************************************************************)
\* The classes of pooled objects: list_pool holds list objects, dict_pool
\* dict objects; "Reiniciable" is a pool of instances of a user class that
\* defines reset().
Clases == {"list", "dict", "Reiniciable"}

\* An object is its class and the number of elements the caller left in it.
Objetos == [clase : Clases, elementos : 0..MaxElementos]

\* weakref.WeakSet accepts only objects that can be weakly referenced:
\* instances of list and dict cannot (TypeError).
Referenciable(obj) == obj.clase \notin {"list", "dict"}

hasattr_reset(obj) == obj.clase = "Reiniciable"

reset(obj) == [obj EXCEPT !.elementos = 0]

\* obj.clear() of a list or a dict
clear(obj) == [obj EXCEPT !.elementos = 0]

factory(clase) == [clase |-> clase, elementos |-> 0]

NINGUNO == [clase |-> "None", elementos |-> 0]

\* ObjectPool.get under self._lock: the object comes from the deque or from
\* the factory; then active_objects.add(obj) raises for an object that
\* cannot be weakly referenced and nothing is handed out.
ObjectPool_get(p, clase) ==
    LET obj == IF p # <<>> THEN Head(p) ELSE factory(clase)
    IN  [pool |-> IF p # <<>> THEN Tail(p) ELSE p,
         desdePool |-> p # <<>>,
         excepcion |-> IF Referenciable(obj) THEN "" ELSE "TypeError",
         obj |-> IF Referenciable(obj) THEN obj ELSE NINGUNO]

\* ObjectPool.return_object under self._lock, with the unguarded append of
\* a deque(maxlen = max_size): a full deque drops its oldest element.
return_object_sin_limite(p, obj) ==
    LET o == IF hasattr_reset(obj) THEN reset(obj) ELSE obj
    IN  IF Len(p) < max_size THEN Append(p, o) ELSE Append(Tail(p), o)

\* ObjectPool.return_object under self._lock: the deque after the call
return_object(p, obj) ==
    IF Len(p) < max_size
    THEN Append(p, IF hasattr_reset(obj) THEN reset(obj) ELSE obj)
    ELSE p

SinLlamadaPool ==
    [op |-> "ninguna", clase |-> "None", excepcion |-> "", obj |-> NINGUNO,
     desdePool |-> FALSE, llena |-> FALSE]

\* pool.get() on the pool of a class
PoolGet(c) ==
    LET r == ObjectPool_get(pool[c], c)
    IN  /\ pool' = [pool EXCEPT ![c] = r.pool]
        /\ llamadaPool' =
              [op |-> "get", clase |-> c, excepcion |-> r.excepcion,
               obj |-> r.obj, desdePool |-> r.desdePool,
               llena |-> Len(pool[c]) = max_size]
        /\ UNCHANGED <<varsNoInfra, varsCache, varsConn, varsApp>>

\* pool.return_object(obj) called directly by a holder of obj
PoolReturnObject(c, obj) ==
    /\ pool' = [pool EXCEPT ![c] = return_object(pool[c], obj)]
    /\ llamadaPool' =
          [op |-> "return_object", clase |-> c,
           excepcion |-> IF Referenciable(obj) THEN "" ELSE "TypeError",
           obj |-> obj, desdePool |-> FALSE, llena |-> Len(pool[c]) = max_size]
    /\ UNCHANGED <<varsNoInfra, varsCache, varsConn, varsApp>>

\* return_to_pool(obj): a list or a dict is cleared and returned to its
\* pool; an object of another class is left alone.
ReturnToPool(obj) ==
    /\ pool' = IF obj.clase \in {"list", "dict"}
               THEN [pool EXCEPT ![obj.clase] =
                        return_object(pool[obj.clase], clear(obj))]
               ELSE pool
    /\ llamadaPool' =
          [op |-> "return_to_pool", clase |-> obj.clase,
           excepcion |-> IF obj.clase \in {"list", "dict"}
                         THEN "TypeError" ELSE "",
           obj |-> obj, desdePool |-> FALSE,
           llena |-> Len(pool[obj.clase]) = max_size]
    /\ UNCHANGED <<varsNoInfra, varsCache, varsConn, varsApp>>

\* pool.clear()
PoolClear(c) ==
    /\ pool' = [pool EXCEPT ![c] = <<>>]
    /\ llamadaPool' =
          [op |-> "clear", clase |-> c, excepcion |-> "", obj |-> NINGUNO,
           desdePool |-> FALSE, llena |-> Len(pool[c]) = max_size]
    /\ UNCHANGED <<varsNoInfra, varsCache, varsConn, varsApp>>

InitPool ==
    /\ pool = [c \in Clases |-> <<>>]
    /\ llamadaPool = SinLlamadaPool

NextPool ==
    \/ \E c \in Clases : PoolGet(c)
    \/ \E obj \in Objetos : PoolReturnObject(obj.clase, obj)
    \/ \E obj \in Objetos : ReturnToPool(obj)
    \/ \E c \in Clases : PoolClear(c)

(***************************************************************************)
(* db/optimized_database.py: QueryCache, OptimizedDatabase and the         *)
(* cached_query decorator                                                  *)
(***************************************************************************)
Tablas == {"reservas", "mensajes"}

\* hash(query) and hash(params) print as digits: one token per query
HashConsulta(tabla) == IF tabla = "reservas" THEN "7301" ELSE "-5582"

\* OptimizedDatabase._cache_key: f"{hash(query)}_{hash(params)}"
CacheKey(tabla) == <<HashConsulta(tabla), "_", "5740">>

\* cached_query: f"{func.__name__}_{hash(...)}" for get_reservas_optimized
\* and get_mensajes_no_respondidos_optimized
ClaveDecorador(tabla) ==
    IF tabla = "reservas"
    THEN <<"get_", "reservas", "_optimized", "_", "-7249">>
    ELSE <<"get_", "mensajes", "_no_respondidos_optimized", "_", "-7249">>

\* the ttl the decorator of each accessor passes: 300 s and 120 s
TtlDecorador(tabla) == IF tabla = "reservas" THEN default_ttl ELSE 1

\* the windows verificar_disponibilidad_optimized is asked about:
\* <<propiedad_id, fecha_inicio, fecha_fin>>
VentanasDisp == {<<1, 1, 2>>, <<2, 1, 1>>}

\* verificar_disponibilidad_optimized:
\* f"disponibilidad_{propiedad_id}_{fecha_inicio}_{fecha_fin}"
ClaveDisponibilidad(propiedad_id, fecha_inicio, fecha_fin) ==
    <<"disponibilidad_", ToString(propiedad_id), "_", ToString(fecha_inicio),
      "_", ToString(fecha_fin)>>

Claves ==
    {CacheKey(t) : t \in Tablas} \cup {ClaveDecorador(t) : t \in Tablas}
        \cup {ClaveDisponibilidad(v[1], v[2], v[3]) : v \in VentanasDisp}

AUSENTE_E == [presente |-> FALSE, result |-> 0, timestamp |-> 0, ttl |-> 0]

\* pattern in k, for strings cut into tokens
Contiene(pattern, k) ==
    \E i \in 0..(Len(k) - Len(pattern)) :
        SubSeq(k, i + 1, i + Len(pattern)) = pattern

\* time.time() - timestamp <= ttl: an entry still served at its expiry time
Vigente_inclusive(e, ahora) == ahora - e.timestamp <= e.ttl

\* time.time() - timestamp < ttl
Vigente(e, ahora) == ahora - e.timestamp < e.ttl

\* QueryCache.get: the value returned (NULO for None) and the cache left
QueryCache_get(c, key, ahora) ==
    IF c[key].presente
    THEN IF Vigente(c[key], ahora)
         THEN [valor |-> c[key].result, cache |-> c]
         ELSE [valor |-> NULO, cache |-> [c EXCEPT ![key] = AUSENTE_E]]
    ELSE [valor |-> NULO, cache |-> c]

\* QueryCache.set: ttl = ttl or self.default_ttl (None and 0 give the
\* default)
QueryCache_set(c, key, value, ttl, ahora) ==
    [c EXCEPT ![key] =
        [presente |-> TRUE, result |-> value, timestamp |-> ahora,
         ttl |-> IF ttl \in {NULO, 0} THEN default_ttl ELSE ttl]]

\* QueryCache.invalidate: conPatron is FALSE for pattern None; an empty
\* pattern is falsy as well
QueryCache_invalidate(c, conPatron, pattern) ==
    IF conPatron /\ pattern # <<>>
    THEN [k \in DOMAIN c |->
             IF Contiene(pattern, k) THEN AUSENTE_E ELSE c[k]]
    ELSE [k \in DOMAIN c |-> AUSENTE_E]

\* self.cache.invalidate(table_name) of execute_write_query and
\* execute_batch; _extract_table_name gives the lower-case table name
invalidate_tabla(c, tabla) == QueryCache_invalidate(c, TRUE, <<tabla>>)

\* OptimizedDatabase.execute_cached_query(query over tabla, ttl): a cached
\* result that is not None is returned, otherwise the store is read and the
\* rows cached
execute_cached_query(c, rows, tabla, ttl, ahora) ==
    LET leido == QueryCache_get(c, CacheKey(tabla), ahora)
    IN  IF leido.valor # NULO
        THEN [valor |-> leido.valor, cache |-> leido.cache]
        ELSE [valor |-> rows[tabla],
              cache |-> QueryCache_set(leido.cache, CacheKey(tabla),
                                       rows[tabla], ttl, ahora)]

\* wrapper of cached_query around get_reservas_optimized /
\* get_mensajes_no_respondidos_optimized
get_optimized(c, rows, tabla, ahora) ==
    LET leido == QueryCache_get(c, ClaveDecorador(tabla), ahora)
        r == execute_cached_query(leido.cache, rows, tabla, default_ttl, ahora)
    IN  IF leido.valor # NULO
        THEN [valor |-> leido.valor, cache |-> leido.cache]
        ELSE [valor |-> r.valor,
              cache |-> QueryCache_set(r.cache, ClaveDecorador(tabla),
                                       r.valor, TtlDecorador(tabla), ahora)]

SinLlamadaCache ==
    [op |-> "ninguna", key |-> <<>>, conPatron |-> FALSE, pattern |-> <<>>,
     tabla |-> "", valor |-> NULO]

\* The clock advances between two calls.
Tic ==
    /\ reloj < MaxReloj
    /\ reloj' = reloj + 1
    /\ llamadaCache' = SinLlamadaCache
    /\ UNCHANGED <<cache, filas>>
    /\ UNCHANGED <<varsNoInfra, varsPool, varsConn, varsApp>>

CacheGet(key) ==
    /\ cache' = QueryCache_get(cache, key, reloj).cache
    /\ llamadaCache' = [SinLlamadaCache EXCEPT !.op = "get", !.key = key,
                           !.valor = QueryCache_get(cache, key, reloj).valor]
    /\ UNCHANGED <<reloj, filas>>
    /\ UNCHANGED <<varsNoInfra, varsPool, varsConn, varsApp>>

CacheSet(key, value, ttl) ==
    /\ cache' = QueryCache_set(cache, key, value, ttl, reloj)
    /\ llamadaCache' = [SinLlamadaCache EXCEPT !.op = "set", !.key = key]
    /\ UNCHANGED <<reloj, filas>>
    /\ UNCHANGED <<varsNoInfra, varsPool, varsConn, varsApp>>

CacheInvalidate(conPatron, pattern) ==
    /\ cache' = QueryCache_invalidate(cache, conPatron, pattern)
    /\ llamadaCache' = [SinLlamadaCache EXCEPT !.op = "invalidate",
                           !.conPatron = conPatron, !.pattern = pattern]
    /\ UNCHANGED <<reloj, filas>>
    /\ UNCHANGED <<varsNoInfra, varsPool, varsConn, varsApp>>

ExecuteCachedQuery(tabla) ==
    LET r == execute_cached_query(cache, filas, tabla, default_ttl, reloj)
    IN  /\ cache' = r.cache
        /\ llamadaCache' = [SinLlamadaCache EXCEPT
                               !.op = "execute_cached_query",
                               !.tabla = tabla, !.valor = r.valor]
        /\ UNCHANGED <<reloj, filas>>
        /\ UNCHANGED <<varsNoInfra, varsPool, varsConn, varsApp>>

GetOptimized(tabla) ==
    LET r == get_optimized(cache, filas, tabla, reloj)
    IN  /\ cache' = r.cache
        /\ llamadaCache' = [SinLlamadaCache EXCEPT !.op = "get_optimized",
                               !.tabla = tabla, !.valor = r.valor]
        /\ UNCHANGED <<reloj, filas>>
        /\ UNCHANGED <<varsNoInfra, varsPool, varsConn, varsApp>>

\* execute_write_query(INSERT/UPDATE/DELETE on tabla): the statement runs,
\* then the cache is invalidated by the table name.
ExecuteWriteQuery(tabla) ==
    /\ filas[tabla] < MaxEscrituras
    /\ filas' = [filas EXCEPT ![tabla] = @ + 1]
    /\ cache' = invalidate_tabla(cache, tabla)
    /\ llamadaCache' = [SinLlamadaCache EXCEPT !.op = "execute_write_query",
                           !.tabla = tabla]
    /\ UNCHANGED reloj
    /\ UNCHANGED <<varsNoInfra, varsPool, varsConn, varsApp>>

\* execute_batch(query on tabla, params_list of n tuples)
ExecuteBatch(tabla, n) ==
    /\ filas[tabla] + n <= MaxEscrituras
    /\ filas' = [filas EXCEPT ![tabla] = @ + n]
    /\ cache' = invalidate_tabla(cache, tabla)
    /\ llamadaCache' = [SinLlamadaCache EXCEPT !.op = "execute_batch",
                           !.tabla = tabla]
    /\ UNCHANGED reloj
    /\ UNCHANGED <<varsNoInfra, varsPool, varsConn, varsApp>>

InitCache ==
    /\ cache = [k \in Claves |-> AUSENTE_E]
    /\ reloj = 0
    /\ filas = [t \in Tablas |-> 0]
    /\ llamadaCache = SinLlamadaCache

\* the keys, values, ttl arguments and patterns of direct QueryCache calls
ClavesDirectas == {CacheKey("reservas"), ClaveDecorador("reservas")}

TtlDados == {NULO, 0, 1, default_ttl + 1}

Patrones == {<<>>, <<"reservas">>, <<"_">>, <<"get_", "reservas">>,
             <<"mensajes">>}

NextQCache ==
    \/ Tic
    \/ \E k \in ClavesDirectas : CacheGet(k)
    \/ \E k \in ClavesDirectas, ttl \in TtlDados : CacheSet(k, 1, ttl)
    \/ \E p \in Patrones : CacheInvalidate(TRUE, p)
    \/ CacheInvalidate(FALSE, <<>>)

NextCacheDB ==
    \/ Tic
    \/ \E t \in Tablas : ExecuteCachedQuery(t)
    \/ \E t \in Tablas : GetOptimized(t)
    \/ \E t \in Tablas : ExecuteWriteQuery(t)
    \/ \E t \in Tablas, n \in 0..MaxEscrituras : ExecuteBatch(t, n)

(***************************************************************************)
(* db/optimized_database.py: verificar_disponibilidad_optimized with its   *)
(* cache, and inserts into reservas through execute_write_query            *)
(***************************************************************************)
\* Python's True and False as cached values (None is NULO)
BoolPy(b) == IF b THEN 1 ELSE 0

\* verificar_disponibilidad_optimized(propiedad_id, fecha_inicio, fecha_fin):
\* a cached answer that is not None is returned; otherwise the table is
\* counted and the answer cached for 300 s
verificar_disponibilidad_con_cache(c, tabla, propiedad_id, fecha_inicio, fecha_fin, ahora) ==
    LET cache_key == ClaveDisponibilidad(propiedad_id, fecha_inicio, fecha_fin)
        leido == QueryCache_get(c, cache_key, ahora)
        disponible == BoolPy(verificar_disponibilidad_optimized(
                                 tabla, propiedad_id, fecha_inicio, fecha_fin))
    IN  IF leido.valor # NULO
        THEN [valor |-> leido.valor, cache |-> leido.cache]
        ELSE [valor |-> disponible,
              cache |-> QueryCache_set(leido.cache, cache_key, disponible,
                                       default_ttl, ahora)]

VerificarDisponibilidadOptimized(p, i, f) ==
    LET r == verificar_disponibilidad_con_cache(cache, reservas, p, i, f, reloj)
    IN  /\ cache' = r.cache
        /\ llamadaCache' = [SinLlamadaCache EXCEPT
                               !.op = "verificar_disponibilidad_optimized",
                               !.key = ClaveDisponibilidad(p, i, f),
                               !.valor = r.valor]
        /\ UNCHANGED <<reloj, filas>>
        /\ UNCHANGED <<varsNoInfra, varsPool, varsConn, varsApp>>

\* execute_write_query("INSERT INTO reservas (...) VALUES (...)", params):
\* the row is stored, then the cache is invalidated by the table name.
InsertarReserva(p, i, f, estado) ==
    /\ Len(reservas) < MaxReservas
    /\ filas["reservas"] < MaxEscrituras
    /\ i <= f
    /\ reservas' = Append(reservas, [propiedad_id |-> p, fecha_inicio |-> i,
                                     fecha_fin |-> f, estado |-> estado,
                                     precio_total |-> 0])
    /\ filas' = [filas EXCEPT !["reservas"] = @ + 1]
    /\ cache' = invalidate_tabla(cache, "reservas")
    /\ llamadaCache' = [SinLlamadaCache EXCEPT !.op = "execute_write_query",
                           !.tabla = "reservas"]
    /\ UNCHANGED <<reloj, consulta>>
    /\ UNCHANGED <<varsMensajes, varsConv, varsConfirm, varsIds, varsProceso,
                   varsPrecios, varsOpt, varsTarde, varsPool, varsConn,
                   varsApp>>

\* the states of the rows inserted
EstadosInsertados == {"confirmada", "cancelada"}

NextDisp ==
    \/ Tic
    \/ \E v \in VentanasDisp : VerificarDisponibilidadOptimized(v[1], v[2], v[3])
    \/ \E p \in Propiedades, i \in Fechas, f \in Fechas, e \in EstadosInsertados :
          InsertarReserva(p, i, f, e)

(***************************************************************************)
(* db/optimized_database.py: ConnectionPool                                *)
(***************************************************************************)
HilosConn == {"h1", "h2", "h3"}

LIBRE == "libre"

Conexiones == 1..max_connections

\* sqlite3.connect: a connection that is neither idle nor in use
NuevaConexion(idle, in_use) ==
    CHOOSE c \in Conexiones :
        c \notin in_use /\ \A k \in DOMAIN idle : idle[k] # c

\* A thread calls get_connection: it reaches "with self._lock".
LlamarGetConnection(t) ==
    /\ pcConn[t] = "fuera"
    /\ pcConn' = [pcConn EXCEPT ![t] = "get_connection"]
    /\ UNCHANGED <<_pool, _in_use, _lock, tiene, argConn>>
    /\ UNCHANGED <<varsNoInfra, varsPool, varsCache, varsApp>>

\* The body of get_connection once threading.Lock is acquired; the lock is
\* not reentrant, so the recursive call of a thread that found the pool at
\* capacity ("reintento") waits for the lock like any other call, while its
\* caller's frame still holds it.
GetConnection(t) ==
    /\ pcConn[t] \in {"get_connection", "reintento"}
    /\ _lock = LIBRE
    /\ IF _pool # <<>>
       THEN /\ _pool' = SubSeq(_pool, 1, Len(_pool) - 1)
            /\ _in_use' = _in_use \cup {_pool[Len(_pool)]}
            /\ tiene' = [tiene EXCEPT ![t] = @ \cup {_pool[Len(_pool)]}]
            /\ pcConn' = [pcConn EXCEPT ![t] = "fuera"]
            /\ UNCHANGED _lock
       ELSE IF Cardinality(_in_use) < max_connections
       THEN /\ _in_use' = _in_use \cup {NuevaConexion(_pool, _in_use)}
            /\ tiene' = [tiene EXCEPT ![t] =
                            @ \cup {NuevaConexion(_pool, _in_use)}]
            /\ pcConn' = [pcConn EXCEPT ![t] = "fuera"]
            /\ UNCHANGED <<_pool, _lock>>
       ELSE /\ _lock' = t
            /\ pcConn' = [pcConn EXCEPT ![t] = "reintento"]
            /\ UNCHANGED <<_pool, _in_use, tiene>>
    /\ UNCHANGED argConn
    /\ UNCHANGED <<varsNoInfra, varsPool, varsCache, varsApp>>

\* A holder calls return_connection(conn): it reaches "with self._lock".
LlamarReturnConnection(t, conn) ==
    /\ pcConn[t] = "fuera"
    /\ conn \in tiene[t]
    /\ pcConn' = [pcConn EXCEPT ![t] = "return_connection"]
    /\ argConn' = [argConn EXCEPT ![t] = conn]
    /\ UNCHANGED <<_pool, _in_use, _lock, tiene>>
    /\ UNCHANGED <<varsNoInfra, varsPool, varsCache, varsApp>>

\* The body of return_connection once the lock is acquired
ReturnConnection(t) ==
    /\ pcConn[t] = "return_connection"
    /\ _lock = LIBRE
    /\ IF argConn[t] \in _in_use
       THEN /\ _in_use' = _in_use \ {argConn[t]}
            /\ _pool' = Append(_pool, argConn[t])
       ELSE UNCHANGED <<_pool, _in_use>>
    /\ tiene' = [tiene EXCEPT ![t] = @ \ {argConn[t]}]
    /\ argConn' = [argConn EXCEPT ![t] = 0]
    /\ pcConn' = [pcConn EXCEPT ![t] = "fuera"]
    /\ UNCHANGED _lock
    /\ UNCHANGED <<varsNoInfra, varsPool, varsCache, varsApp>>

InitConn ==
    /\ _pool = <<>>
    /\ _in_use = {}
    /\ _lock = LIBRE
    /\ pcConn = [t \in HilosConn |-> "fuera"]
    /\ tiene = [t \in HilosConn |-> {}]
    /\ argConn = [t \in HilosConn |-> 0]

NextConn ==
    \/ \E t \in HilosConn : LlamarGetConnection(t)
    \/ \E t \in HilosConn : GetConnection(t)
    \/ \E t \in HilosConn, c \in Conexiones : LlamarReturnConnection(t, c)
    \/ \E t \in HilosConn : ReturnConnection(t)

(***************************************************************************)
(* main_optimized.py: main, OptimizedApplication.run and shutdown          *)
(***************************************************************************)
\* app.pc is the statement main() is at; app.pasos lists the calls made so
\* far with whether each raised; app.monitoring is memory_monitor.monitoring
\* and app.root whether self.root is set.
Paso(nombre, ok) == [paso |-> nombre, ok |-> ok]

Avanzar(pc, nombre, ok) ==
    [app EXCEPT !.pc = pc, !.pasos = Append(@, Paso(nombre, ok))]

\* run: a call of run() that gives False makes run return False
Fase(hasta, nombre, ok) ==
    IF ok THEN Avanzar(hasta, nombre, TRUE)
    ELSE [Avanzar("run_termino", nombre, FALSE) EXCEPT !.retorno = "False"]

CheckDependencies(ok) ==
    /\ app.pc = "check_dependencies"
    /\ app' = Fase("initialize_database", "check_dependencies", ok)
    /\ UNCHANGED <<varsNoInfra, varsPool, varsCache, varsConn>>

InitializeDatabase(ok) ==
    /\ app.pc = "initialize_database"
    /\ app' = Fase("initialize_nlp", "initialize_database", ok)
    /\ UNCHANGED <<varsNoInfra, varsPool, varsCache, varsConn>>

InitializeNlp(ok) ==
    /\ app.pc = "initialize_nlp"
    /\ app' = Fase("start_memory_monitoring", "initialize_nlp", ok)
    /\ UNCHANGED <<varsNoInfra, varsPool, varsCache, varsConn>>

\* start_memory_monitoring: start_monitoring sets monitoring before the
\* thread starts; an exception is printed and run goes on
StartMemoryMonitoring(ok) ==
    /\ app.pc = "start_memory_monitoring"
    /\ app' = [Avanzar("create_gui", "start_monitoring", ok)
                  EXCEPT !.monitoring = TRUE]
    /\ UNCHANGED <<varsNoInfra, varsPool, varsCache, varsConn>>

\* create_gui: tk.Tk() and AppGUI(root); an Exception gives False and run
\* returns False; self.root may be set or not when AppGUI raises
CreateGui(ok, conRoot) ==
    /\ app.pc = "create_gui"
    /\ ok => conRoot
    /\ app' = IF ok
              THEN [Avanzar("mainloop", "create_gui", TRUE)
                       EXCEPT !.root = TRUE]
              ELSE [Avanzar("run_termino", "create_gui", FALSE)
                       EXCEPT !.root = conRoot, !.retorno = "False"]
    /\ UNCHANGED <<varsNoInfra, varsPool, varsCache, varsConn>>

FinesDelBucle == {"normal", "KeyboardInterrupt", "Exception"}

\* self.root.mainloop() ends: normally (return True), by KeyboardInterrupt
\* (shutdown() is called, then return True) or by an Exception (return
\* False)
Mainloop(fin) ==
    /\ app.pc = "mainloop"
    /\ app' = [Avanzar(IF fin = "KeyboardInterrupt" THEN "shutdown_stop"
                       ELSE "run_termino", "mainloop", fin = "normal")
                  EXCEPT !.initialized = TRUE, !.salida = fin,
                         !.retorno = IF fin = "Exception" THEN "False"
                                     ELSE "True"]
    /\ UNCHANGED <<varsNoInfra, varsPool, varsCache, varsConn>>

\* shutdown: memory_monitor.stop_monitoring() inside try/except: pass
ShutdownStopMonitoring(ok) ==
    /\ app.pc = "shutdown_stop"
    /\ app' = [Avanzar("shutdown_optimize", "stop_monitoring", ok)
                  EXCEPT !.monitoring = FALSE]
    /\ UNCHANGED <<varsNoInfra, varsPool, varsCache, varsConn>>

\* shutdown: optimize_memory() inside try/except: pass
ShutdownOptimizeMemory(ok) ==
    /\ app.pc = "shutdown_optimize"
    /\ app' = Avanzar("shutdown_gui", "optimize_memory", ok)
    /\ UNCHANGED <<varsNoInfra, varsPool, varsCache, varsConn>>

ResultadosTeardown == {"ok", "quit", "destroy"}

\* shutdown: if self.root: root.quit(); root.destroy() inside one
\* try/except: pass; resultado names the call that raised, if any
ShutdownGui(resultado) ==
    /\ app.pc = "shutdown_gui"
    /\ app' = IF ~app.root THEN [app EXCEPT !.pc = "run_termino"]
              ELSE IF resultado = "quit"
              THEN Avanzar("run_termino", "quit", FALSE)
              ELSE [Avanzar("run_termino", "quit", TRUE) EXCEPT
                       !.pasos = Append(@, Paso("destroy", resultado = "ok"))]
    /\ UNCHANGED <<varsNoInfra, varsPool, varsCache, varsConn>>

\* main: the finally clause runs optimize_memory() inside try/except: pass
MainFinally(ok) ==
    /\ app.pc = "run_termino"
    /\ app' = [app EXCEPT !.pc = "main_termino",
                          !.finally_ok = ok]
    /\ UNCHANGED <<varsNoInfra, varsPool, varsCache, varsConn>>

InitApp ==
    app = [pc |-> "check_dependencies", pasos |-> <<>>, monitoring |-> FALSE,
           root |-> FALSE, initialized |-> FALSE, salida |-> "",
           retorno |-> "", finally_ok |-> FALSE]

NextApp ==
    \/ \E ok \in BOOLEAN : CheckDependencies(ok)
    \/ \E ok \in BOOLEAN : InitializeDatabase(ok)
    \/ \E ok \in BOOLEAN : InitializeNlp(ok)
    \/ \E ok \in BOOLEAN : StartMemoryMonitoring(ok)
    \/ \E ok \in BOOLEAN, conRoot \in BOOLEAN : CreateGui(ok, conRoot)
    \/ \E fin \in FinesDelBucle : Mainloop(fin)
    \/ \E ok \in BOOLEAN : ShutdownStopMonitoring(ok)
    \/ \E ok \in BOOLEAN : ShutdownOptimizeMemory(ok)
    \/ \E resultado \in ResultadosTeardown : ShutdownGui(resultado)
    \/ \E ok \in BOOLEAN : MainFinally(ok)

(***************************************************************************)
(* utils/memory_optimizer.py: MemoryMonitor                                *)
(***************************************************************************)
\* get_memory_usage() in MB
Muestras == {1, 4, 5}

Max(a, b) == IF a >= b THEN a ELSE b

\* a deque(maxlen = n) after append
AppendMaxlen(d, x, n) ==
    IF Len(d) < n THEN Append(d, x) ELSE Append(Tail(d), x)

RECURSIVE Suma(_)
Suma(s) == IF s = <<>> THEN 0 ELSE Head(s) + Suma(Tail(s))

\* list(self.memory_history)[-5:]
UltimosCinco(h) == SubSeq(h, Max(1, Len(h) - 4), Len(h))

\* recent_avg >= self.peak_memory * 0.8
HayPresion_inclusive(h, peak) ==
    Len(h) >= 5 /\ 2 * Suma(UltimosCinco(h)) >= 8 * peak

\* len(self.memory_history) >= 5 and recent_avg > self.peak_memory * 0.8,
\* recent_avg being the sum of the last five samples / 5 (both sides * 10)
HayPresion(h, peak) ==
    Len(h) >= 5 /\ 2 * Suma(UltimosCinco(h)) > 8 * peak

SinTick == [muestra |-> NULO, limpieza |-> FALSE]

\* start_monitoring: nothing happens while monitoring is set; otherwise the
\* flag is set and a new daemon thread runs _monitor_loop
StartMonitoring ==
    /\ monitor.loops < MaxLoops
    /\ monitor' = IF monitor.monitoring THEN monitor
                  ELSE [monitor EXCEPT !.monitoring = TRUE, !.loops = @ + 1]
    /\ UNCHANGED <<varsNoTarde, lazy, lista, cola, objpool>>

\* stop_monitoring: the flag is cleared; join(timeout=1) returns whether or
\* not the loop, asleep for check_interval seconds, has ended
StopMonitoring ==
    /\ monitor' = [monitor EXCEPT !.monitoring = FALSE]
    /\ UNCHANGED <<varsNoTarde, lazy, lista, cola, objpool>>

\* A loop evaluates "while self.monitoring" and finds the flag cleared.
LoopTermina ==
    /\ monitor.loops > 0
    /\ ~monitor.monitoring
    /\ monitor' = [monitor EXCEPT !.loops = @ - 1]
    /\ UNCHANGED <<varsNoTarde, lazy, lista, cola, objpool>>

\* One pass of the body of _monitor_loop with psutil importable: the sample
\* is appended, the peak raised, the cleanup triggered under pressure
\* (whether or not it raises), then the loop sleeps.
Tick(current_memory) ==
    /\ monitor.loops > 0
    /\ monitor.monitoring
    /\ monitor.psutil # "no"
    /\ LET h == AppendMaxlen(monitor.memory_history, current_memory, maxlen)
           peak == IF current_memory > monitor.peak_memory
                   THEN current_memory ELSE monitor.peak_memory
       IN  monitor' = [monitor EXCEPT
                          !.psutil = "si",
                          !.memory_history = h,
                          !.peak_memory = peak,
                          !.maxVisto = Max(@, current_memory),
                          !.paridad = 1 - @,
                          !.tick = [muestra |-> current_memory,
                                    limpieza |-> HayPresion(h, peak)]]
    /\ UNCHANGED <<varsNoTarde, lazy, lista, cola, objpool>>

\* One pass with psutil missing: get_memory_usage raises ImportError at its
\* import, the loop prints the error and sleeps.
TickSinPsutil ==
    /\ monitor.loops > 0
    /\ monitor.monitoring
    /\ monitor.psutil # "si"
    /\ monitor' = [monitor EXCEPT !.psutil = "no", !.paridad = 1 - @,
                                  !.tick = SinTick]
    /\ UNCHANGED <<varsNoTarde, lazy, lista, cola, objpool>>

InitMonitor ==
    monitor = [monitoring |-> FALSE, loops |-> 0, memory_history |-> <<>>,
               peak_memory |-> 0, psutil |-> "?", maxVisto |-> 0,
               paridad |-> 0, tick |-> SinTick]

NextMonitor ==
    \/ StartMonitoring
    \/ StopMonitoring
    \/ LoopTermina
    \/ \E m \in Muestras : Tick(m)
    \/ TickSinPsutil


(***************************************************************************)
(* utils/memory_optimizer.py: LazyContainer                                *)
(***************************************************************************)
HilosLazy == {"h1", "h2"}

SinRetorno == [hecha |-> FALSE, valor |-> NULO, epocaInicio |-> 0,
               epocaFin |-> 0, cargado |-> NULO, cargas |-> 0]

\* the inner "if not self._loaded" left out: the loader runs whenever the
\* lock is taken
DebeCargar_sin_segunda_comprobacion(_loaded) == TRUE

\* the inner "if not self._loaded" of get, under the lock
DebeCargar(_loaded) == ~_loaded

\* get, first statement: "if not self._loaded" read without the lock
LazyGetComprobar(t) ==
    /\ lazy.pc[t] = "fuera"
    /\ lazy' = [lazy EXCEPT
                   !.pc[t] = IF lazy._loaded THEN "return" ELSE "with_lock",
                   !.epocaInicio[t] = lazy.epoca]
    /\ UNCHANGED <<varsNoTarde, monitor, lista, cola, objpool>>

\* get, inside "with self._lock": the second check, the load (the n-th call
\* of the loader returns n), the release
LazyGetCargar(t) ==
    /\ lazy.pc[t] = "with_lock"
    /\ lazy' = IF DebeCargar(lazy._loaded)
               THEN [lazy EXCEPT !.pc[t] = "return",
                                 !._value = lazy.llamadas + 1,
                                 !._loaded = TRUE,
                                 !.llamadas = @ + 1,
                                 !.cargasEpoca = @ + 1,
                                 !.cargado = lazy.llamadas + 1]
               ELSE [lazy EXCEPT !.pc[t] = "return"]
    /\ UNCHANGED <<varsNoTarde, monitor, lista, cola, objpool>>

\* get, last statement: "return self._value"
LazyGetRetornar(t) ==
    /\ lazy.pc[t] = "return"
    /\ lazy' = [lazy EXCEPT
                   !.pc[t] = "fuera",
                   !.retorno[t] = [hecha |-> TRUE, valor |-> lazy._value,
                                   epocaInicio |-> lazy.epocaInicio[t],
                                   epocaFin |-> lazy.epoca,
                                   cargado |-> lazy.cargado,
                                   cargas |-> lazy.cargasEpoca]]
    /\ UNCHANGED <<varsNoTarde, monitor, lista, cola, objpool>>

\* unload, under the lock: the value is dropped and the flag cleared
LazyUnload ==
    /\ lazy.epoca < MaxDescargas
    /\ lazy' = [lazy EXCEPT !._value = NULO, !._loaded = FALSE,
                            !.epoca = @ + 1, !.cargasEpoca = 0,
                            !.cargado = NULO]
    /\ UNCHANGED <<varsNoTarde, monitor, lista, cola, objpool>>

InitLazy ==
    lazy = [_value |-> NULO, _loaded |-> FALSE,
            pc |-> [t \in HilosLazy |-> "fuera"],
            epocaInicio |-> [t \in HilosLazy |-> 0],
            retorno |-> [t \in HilosLazy |-> SinRetorno],
            llamadas |-> 0, epoca |-> 0, cargasEpoca |-> 0, cargado |-> NULO]

NextLazy ==
    \/ \E t \in HilosLazy : LazyGetComprobar(t)
    \/ \E t \in HilosLazy : LazyGetCargar(t)
    \/ \E t \in HilosLazy : LazyGetRetornar(t)
    \/ LazyUnload

(***************************************************************************)
(* utils/memory_optimizer.py: MemoryEfficientList                          *)
(***************************************************************************)
\* chunk_index = index // chunk_size of the reads followed
IndicesDeChunk == 0..MaxChunk

MinimoDe(S) == CHOOSE x \in S : \A y \in S : x <= y

\* _load_chunk under the lock: the keys of self._chunks after the call and
\* the key deleted, if any. The count is tested before the new chunk is
\* stored.
load_chunk(chunks, chunk_index) ==
    IF chunk_index \in chunks
    THEN [chunks |-> chunks, cargado |-> FALSE, expulsado |-> NULO]
    ELSE IF Cardinality(chunks) > max_chunks
    THEN [chunks |-> (chunks \ {MinimoDe(chunks)}) \cup {chunk_index},
          cargado |-> TRUE, expulsado |-> MinimoDe(chunks)]
    ELSE [chunks |-> chunks \cup {chunk_index}, cargado |-> TRUE,
          expulsado |-> NULO]

\* __getitem__(index) with index in chunk chunk_index
GetItem(chunk_index) ==
    /\ lista' = [_chunks |-> load_chunk(lista._chunks, chunk_index).chunks,
                 antes |-> lista._chunks,
                 chunk_index |-> chunk_index,
                 cargado |-> load_chunk(lista._chunks, chunk_index).cargado,
                 expulsado |->
                     load_chunk(lista._chunks, chunk_index).expulsado]
    /\ UNCHANGED <<varsNoTarde, monitor, lazy, cola, objpool>>

\* clear_cache
ClearCache ==
    /\ lista' = [_chunks |-> {}, antes |-> lista._chunks,
                 chunk_index |-> NULO, cargado |-> FALSE, expulsado |-> NULO]
    /\ UNCHANGED <<varsNoTarde, monitor, lazy, cola, objpool>>

InitLista ==
    lista = [_chunks |-> {}, antes |-> {}, chunk_index |-> NULO,
             cargado |-> FALSE, expulsado |-> NULO]

NextLista ==
    \/ \E c \in IndicesDeChunk : GetItem(c)
    \/ ClearCache

(***************************************************************************)
(* core/async_email_handler.py: AsyncTaskQueue                             *)
(***************************************************************************)
\* The worker coroutines start_workers created, and the task ids callers
\* supply. Coroutines of one event loop run one at a time: what lies between
\* two awaits is one step.
Workers == {"w1", "w2"}

Tareas == 1..MaxTareas

\* the throttle left out: a task is admitted whatever active_tasks holds
PuedeAdmitir_siempre(active_tasks) == TRUE

\* the exit test of "while len(self.active_tasks) >= max_concurrent_tasks"
PuedeAdmitir(active_tasks) ==
    Cardinality(active_tasks) < max_concurrent_tasks

\* a worker that leaves its loop when the task it awaited raised
TrasRegistrar_se_detiene(fin) == IF fin = "error" THEN "detenido" ELSE "get"

\* after self.queue.task_done() the worker is back at "await queue.get()"
TrasRegistrar(fin) == "get"

\* add_task(task_id, coro): queue.put
AddTask(id) ==
    /\ cola.estado[id] = "nueva"
    /\ cola' = [cola EXCEPT !.queue = Append(@, id), !.estado[id] = "cola"]
    /\ UNCHANGED <<varsNoTarde, monitor, lazy, lista, objpool>>

\* worker: "await self.queue.get()" returns the head of the queue
WorkerGet(w) ==
    /\ cola.pc[w] = "get"
    /\ cola.queue # <<>>
    /\ cola' = [cola EXCEPT !.queue = Tail(@), !.pc[w] = "throttle",
                            !.tarea[w] = Head(cola.queue)]
    /\ UNCHANGED <<varsNoTarde, monitor, lazy, lista, objpool>>

\* worker: the throttle loop is left, the task is created and added to
\* active_tasks, the done callback registered, the worker awaits the task
WorkerAdmit(w) ==
    /\ cola.pc[w] = "throttle"
    /\ PuedeAdmitir(cola.active_tasks)
    /\ cola' = [cola EXCEPT !.active_tasks = @ \cup {cola.tarea[w]},
                            !.estado[cola.tarea[w]] = "activa",
                            !.pc[w] = "await"]
    /\ UNCHANGED <<varsNoTarde, monitor, lazy, lista, objpool>>

\* The coroutine of a task ends: it returns or raises an Exception.
TaskFinish(id, fin) ==
    /\ cola.estado[id] = "activa"
    /\ cola' = [cola EXCEPT !.estado[id] = fin]
    /\ UNCHANGED <<varsNoTarde, monitor, lazy, lista, objpool>>

\* The done callback of a finished task: active_tasks.discard(t)
DoneCallback(id) ==
    /\ cola.estado[id] \in {"ok", "error"}
    /\ id \in cola.active_tasks
    /\ cola' = [cola EXCEPT !.active_tasks = @ \ {id}]
    /\ UNCHANGED <<varsNoTarde, monitor, lazy, lista, objpool>>

\* worker: "await task" returns or raises after the done callback ran; the
\* result or the error text is stored, task_done() called
WorkerRecord(w) ==
    /\ cola.pc[w] = "await"
    /\ cola.estado[cola.tarea[w]] \in {"ok", "error"}
    /\ cola.tarea[w] \notin cola.active_tasks
    /\ cola' = [cola EXCEPT
                   !.results[cola.tarea[w]] =
                       IF cola.estado[cola.tarea[w]] = "ok"
                       THEN [success |-> TRUE, result |-> cola.tarea[w]]
                       ELSE [success |-> FALSE, result |-> NULO],
                   !.pc[w] = TrasRegistrar(cola.estado[cola.tarea[w]]),
                   !.tarea[w] = 0]
    /\ UNCHANGED <<varsNoTarde, monitor, lazy, lista, objpool>>

\* self.results.get(task_id) of a task without result
SinResultado == [success |-> FALSE, result |-> 0]

InitCola ==
    cola = [queue |-> <<>>, active_tasks |-> {},
            results |-> [id \in Tareas |-> SinResultado],
            estado |-> [id \in Tareas |-> "nueva"],
            pc |-> [w \in Workers |-> "get"],
            tarea |-> [w \in Workers |-> 0]]

NextCola ==
    \/ \E id \in Tareas : AddTask(id)
    \/ \E w \in Workers : WorkerGet(w)
    \/ \E w \in Workers : WorkerAdmit(w)
    \/ \E id \in Tareas, fin \in {"ok", "error"} : TaskFinish(id, fin)
    \/ \E id \in Tareas : DoneCallback(id)
    \/ \E w \in Workers : WorkerRecord(w)

(***************************************************************************)
(* utils/memory_optimizer.py: ObjectPool with the identity of its objects  *)
(*                                                                         *)
(* The pool is one of instances of a user class (they can be weakly        *)
(* referenced and define reset()); an object is told apart by its id.      *)
(* tiene[h] is the object holder h has checked out and not returned (0:    *)
(* none), ref[h] the reference h keeps in its variable, also after the     *)
(* return.                                                                 *)
(***************************************************************************)
Holders == {"a", "b"}

\* the n-th object the factory makes
Nuevo(n) == [clase |-> "Reiniciable", elementos |-> 0, id |-> n]

SIN_OBJETO == [clase |-> "None", elementos |-> 0, id |-> 0]

\* h calls pool.get(): the leftmost idle object or a new one; it joins
\* active_objects and is handed to h.
ObjGet(h) ==
    /\ objpool.tiene[h] = SIN_OBJETO
    /\ objpool.pool = <<>> => objpool.creados < MaxObjetos
    /\ LET r == ObjectPool_get(objpool.pool, "Reiniciable")
           obj == IF r.desdePool THEN r.obj ELSE Nuevo(objpool.creados + 1)
       IN  objpool' = [objpool EXCEPT
                          !.pool = r.pool,
                          !.creados = IF r.desdePool THEN @ ELSE @ + 1,
                          !.active_objects = @ \cup {obj.id},
                          !.tiene[h] = obj,
                          !.ref[h] = obj]
    /\ UNCHANGED <<varsNoTarde, monitor, lazy, lista, cola>>

\* h leaves elementos elements in the object it has checked out.
ObjUsar(h, elementos) ==
    /\ objpool.tiene[h] # SIN_OBJETO
    /\ objpool.tiene[h].elementos # elementos
    /\ LET usado == [objpool.tiene[h] EXCEPT !.elementos = elementos]
       IN  objpool' = [objpool EXCEPT
                          !.tiene = [k \in Holders |->
                                        IF @[k].id = usado.id THEN usado ELSE @[k]],
                          !.ref = [k \in Holders |->
                                      IF @[k].id = usado.id THEN usado ELSE @[k]],
                          !.pool = [j \in DOMAIN @ |->
                                       IF @[j].id = usado.id THEN usado ELSE @[j]]]
    /\ UNCHANGED <<varsNoTarde, monitor, lazy, lista, cola>>

\* h calls pool.return_object(obj) with the reference it keeps, whether h
\* still has the object checked out or has returned it before.
ObjReturn(h) ==
    /\ objpool.ref[h] # SIN_OBJETO
    /\ LET obj == objpool.ref[h]
           p == return_object(objpool.pool, obj)
           devuelto == reset(obj)
       IN  objpool' = [objpool EXCEPT
                          !.pool = IF Len(objpool.pool) < max_size
                                   THEN [j \in DOMAIN p |->
                                            IF p[j].id = obj.id THEN devuelto ELSE p[j]]
                                   ELSE p,
                          !.active_objects = @ \ {obj.id},
                          !.tiene = [k \in Holders |->
                                        IF k = h THEN SIN_OBJETO
                                        ELSE IF @[k].id = obj.id
                                                  /\ Len(objpool.pool) < max_size
                                        THEN devuelto ELSE @[k]],
                          !.ref = [k \in Holders |->
                                      IF @[k].id = obj.id
                                            /\ Len(objpool.pool) < max_size
                                      THEN devuelto ELSE @[k]]]
    /\ UNCHANGED <<varsNoTarde, monitor, lazy, lista, cola>>

\* h drops the reference to an object it has returned.
ObjOlvidar(h) ==
    /\ objpool.ref[h] # SIN_OBJETO
    /\ objpool.tiene[h] = SIN_OBJETO
    /\ objpool' = [objpool EXCEPT !.ref[h] = SIN_OBJETO]
    /\ UNCHANGED <<varsNoTarde, monitor, lazy, lista, cola>>

InitObjPool ==
    objpool = [pool |-> <<>>, active_objects |-> {}, creados |-> 0,
               tiene |-> [h \in Holders |-> SIN_OBJETO],
               ref |-> [h \in Holders |-> SIN_OBJETO]]

NextObjPool ==
    \/ \E h \in Holders : ObjGet(h)
    \/ \E h \in Holders, e \in 0..MaxElementos : ObjUsar(h, e)
    \/ \E h \in Holders : ObjReturn(h)
    \/ \E h \in Holders : ObjOlvidar(h)

InitMensajes ==
    /\ buzon = [g \in GmailIds |-> "ausente"]
    /\ mensajes = <<>>
    /\ envios = <<>>
    /\ registro = <<>>
    /\ pcProc = "idle"
    /\ lote = <<>>
    /\ idx = 0
    /\ resultados = ResultadosCero
    /\ retorno = [tipo |-> "ninguno", valor |-> ResultadosCero]
    /\ entregados = <<>>
    /\ corridas = 0

Init ==
    /\ InitMensajes /\ InitReservas /\ InitConv /\ InitConfirm
    /\ InitIds /\ InitProceso /\ InitPrecios /\ InitOpt
    /\ InitPool /\ InitCache /\ InitConn /\ InitApp
    /\ InitMonitor /\ InitLazy /\ InitLista /\ InitCola /\ InitObjPool

Next ==
    \/ \E g \in GmailIds : Llegar(g)
    \/ IniciarProcesamiento
    \/ ProcesarSiguiente

Spec == Init /\ [][Next]_vars

SpecReservas == Init /\ [][NextReservas]_vars

SpecConv == Init /\ [][NextConv]_vars

SpecConfirm == Init /\ [][NextConfirm]_vars

\* as Init, with any mail of the bounded set at hand
InitConCorreo ==
    /\ InitMensajes /\ InitReservas /\ InitConv /\ InitConfirm
    /\ InitCorreos /\ InitProceso /\ InitPrecios /\ InitOpt
    /\ InitPool /\ InitCache /\ InitConn /\ InitApp
    /\ InitMonitor /\ InitLazy /\ InitLista /\ InitCola /\ InitObjPool

SpecPrecios == Init /\ [][NextPrecios]_vars

SpecOpt == Init /\ [][NextOpt]_vars

SpecPool == Init /\ [][NextPool]_vars

SpecQCache == Init /\ [][NextQCache]_vars

SpecCacheDB == Init /\ [][NextCacheDB]_vars

SpecDisp == Init /\ [][NextDisp]_vars

\* A thread that reached "with self._lock" goes on once the lock is free.
SpecConn ==
    /\ Init
    /\ [][NextConn]_vars
    /\ \A t \in HilosConn :
          WF_vars(GetConnection(t)) /\ WF_vars(ReturnConnection(t))

SpecApp == Init /\ [][NextApp]_vars

SpecMonitor == Init /\ [][NextMonitor]_vars

SpecLazy == Init /\ [][NextLazy]_vars

SpecLista == Init /\ [][NextLista]_vars

SpecCola == Init /\ [][NextCola]_vars

SpecObjPool == Init /\ [][NextObjPool]_vars

\* The event loop runs every ready coroutine and callback, and the coroutine
\* of every task ends.
SpecColaJusta ==
    /\ Init
    /\ [][NextCola]_vars
    /\ \A w \in Workers :
          WF_vars(WorkerGet(w)) /\ WF_vars(WorkerAdmit(w))
             /\ WF_vars(WorkerRecord(w))
    /\ \A id \in Tareas :
          WF_vars(DoneCallback(id))
             /\ WF_vars(\E fin \in {"ok", "error"} : TaskFinish(id, fin))

SpecProceso == Init /\ [][NextProceso]_vars

SpecIds == InitConCorreo /\ [][NextIds]_vars

(***************************************************************************)
(* Claims about the message pipeline (specification Spec)                  *)
(***************************************************************************)
\* the rows whose analysis or response generation raised: log_error wrote
\* an ERROR line for them
ConExcepcion(i) ==
    \E k \in DOMAIN registro :
        registro[k].id = i /\ registro[k].nivel = "ERROR"

AccionesDe(i) ==
    {k \in DOMAIN registro : registro[k].id = i /\ registro[k].nivel = "INFO"}

EnviosDe(i) == {k \in DOMAIN envios : envios[k].id = i}

\* C1: every message that could not be auto-answered (its analysis or
\* response generation raised) is kept in mensajes with a non-null
\* motivo_no_respuesta and is returned by
\* obtener_mensajes_que_requieren_atencion. (No operator can have marked it
\* reviewed: marcar_como_revisado acts on a row chosen from that list.)
C1_NoRespondidoRequiereAtencion ==
    \A i \in DOMAIN mensajes :
        ConExcepcion(i) =>
            /\ mensajes[i].motivo_no_respuesta # NULL
            /\ i \in obtener_mensajes_que_requieren_atencion(mensajes)

\* C4: every processed message has exactly one of the three outcomes and
\* its row matches: respondido iff the reply was sent (respondido = 1,
\* respuesta = the sent text); error_envio iff the send failed (respondido
\* = 0); revision_manual iff the analysis or generation raised (respondido
\* = 1, the fixed text, motivo_no_respuesta = the exception text).
C4_ResultadoYFila ==
    \A i \in DOMAIN mensajes :
        /\ Cardinality(AccionesDe(i)) <= 1
        /\ (AccionesDe(i) = {}) =>
              /\ EnviosDe(i) = {} /\ ~ConExcepcion(i)
              /\ mensajes[i].respondido = 0
        /\ \A k \in AccionesDe(i) :
              LET accion == registro[k].texto IN
              /\ accion \in {"respondido", "error_envio", "revision_manual"}
              /\ (accion = "respondido") <=>
                    (\E e \in EnviosDe(i) : envios[e].ok)
              /\ (accion = "error_envio") <=>
                    (\E e \in EnviosDe(i) : ~envios[e].ok)
              /\ (accion = "revision_manual") <=> ConExcepcion(i)
              /\ (accion = "respondido") =>
                    /\ mensajes[i].respondido = 1
                    /\ \A e \in EnviosDe(i) :
                          mensajes[i].respuesta = envios[e].texto
              /\ (accion = "error_envio") => mensajes[i].respondido = 0
              /\ (accion = "revision_manual") =>
                    /\ mensajes[i].respondido = 1
                    /\ mensajes[i].respuesta = TEXTO_REVISION_MANUAL
                    /\ \A j \in DOMAIN registro :
                          (registro[j].id = i /\ registro[j].nivel = "ERROR")
                             => mensajes[i].motivo_no_respuesta = registro[j].texto

\* the three outcomes have all happened
C4_Testigo ==
    /\ \E k \in DOMAIN registro : registro[k].texto = "respondido"
    /\ \E k \in DOMAIN registro : registro[k].texto = "error_envio"
    /\ \E k \in DOMAIN registro : registro[k].texto = "revision_manual"

IdsDe(l, n) == [k \in 1..n |-> l[k].id]

\* C5: whatever messages of the batch raise, every message of the batch is
\* handed to procesar_mensaje_individual in fetch order and the call
\* returns the tally map; it never returns None for a fetched batch.
C5_LoteCompleto ==
    /\ retorno.tipo # "None"
    /\ pcProc = "loop" =>
          /\ retorno.tipo = "en_curso"
          /\ entregados = IdsDe(lote, idx - 1)
    /\ (pcProc = "idle" /\ retorno.tipo # "ninguno") =>
          /\ retorno.tipo = "resultados"
          /\ entregados = IdsDe(lote, Len(lote))

\* a call has returned after a batch of two or more whose first message
\* raised
C5_Testigo ==
    /\ pcProc = "idle"
    /\ retorno.tipo = "resultados"
    /\ Len(lote) >= 2
    /\ ConExcepcion(lote[1].id)
    /\ entregados = IdsDe(lote, Len(lote))

\* C6: a fetched message whose reply could not be sent is marked read on
\* the server, keeps respondido = 0, and no later run fetches or processes
\* it again.
C6_FalloEnvioNoSeReprocesa ==
    \A k \in DOMAIN envios :
        ~envios[k].ok =>
            LET g == envios[k].gmail IN
            /\ buzon[g] = "leido"
            /\ mensajes[envios[k].id].respondido = 0
            /\ Cardinality({i \in DOMAIN mensajes : mensajes[i].gmail = g}) = 1
            /\ Cardinality({j \in DOMAIN envios : envios[j].gmail = g}) = 1
            /\ Cardinality(AccionesDe(envios[k].id)) = 1
            /\ envios[k].corrida < corridas =>
                  \A j \in DOMAIN lote : lote[j].id_gmail # g

\* a later run has fetched and processed a batch after a failed send
C6_Testigo ==
    \E k \in DOMAIN envios :
        /\ ~envios[k].ok
        /\ envios[k].corrida < corridas
        /\ lote # <<>>
        /\ pcProc = "idle"
        /\ retorno.tipo = "resultados"

(***************************************************************************)
(* Claims about the availability test (specification SpecReservas)         *)
(***************************************************************************)
Bloquea(r, p) == r.propiedad_id = p /\ r.estado \in {"confirmada", "pendiente"}

\* C2: verificar_disponibilidad answers true iff no reservation of the
\* property with estado confirmada or pendiente satisfies
\* NOT (existing.fin < inicio OR existing.inicio > fin); a reservation that
\* touches a boundary day of the window (both being stays with inicio <=
\* fin) is a conflict; cancelled reservations and reservations of other
\* properties never block.
C2_Disponibilidad ==
    consulta.hecha =>
        LET p == consulta.propiedad_id
            i == consulta.fecha_inicio
            f == consulta.fecha_fin
            antes == SubSeq(reservas, 1, consulta.filas)
        IN  /\ consulta.disponible <=>
                  \A k \in DOMAIN antes :
                      Bloquea(antes[k], p) =>
                          (antes[k].fecha_fin < i \/ antes[k].fecha_inicio > f)
            /\ (/\ i <= f
                /\ \E k \in DOMAIN antes :
                      /\ Bloquea(antes[k], p)
                      /\ antes[k].fecha_inicio <= antes[k].fecha_fin
                      /\ antes[k].fecha_fin = i \/ antes[k].fecha_inicio = f)
                 => ~consulta.disponible
            /\ (\A k \in DOMAIN antes :
                   antes[k].estado = "cancelada" \/ antes[k].propiedad_id # p)
                 => consulta.disponible

\* a window was refused although every blocking stay only touches its first
\* day
C2_Testigo ==
    /\ consulta.hecha
    /\ ~consulta.disponible
    /\ consulta.filas = Len(reservas)
    /\ consulta.fecha_inicio <= consulta.fecha_fin
    /\ \A k \in DOMAIN reservas :
          Bloquea(reservas[k], consulta.propiedad_id) =>
              /\ reservas[k].fecha_inicio < reservas[k].fecha_fin
              /\ reservas[k].fecha_fin = consulta.fecha_inicio

(***************************************************************************)
(* Claims about _confirm_reservation (specification SpecConfirm)           *)
(***************************************************************************)
FilaDe(t) == reservas[conf[t].fila]

Solapan(r1, r2) ==
    /\ r1.propiedad_id = r2.propiedad_id
    /\ ~(r1.fecha_fin < r2.fecha_inicio \/ r1.fecha_inicio > r2.fecha_fin)

\* C3: the availability test and the insert are separate steps: the insert
\* step of a call that passed the test adds its 'confirmada' row whatever
\* the table holds by then, so two interleaved calls for overlapping windows
\* of one property both insert.
C3_InsercionSinVerificar ==
    [][\A t \in Hilos :
          (/\ conf[t].pc = "crear"
           /\ conf'[t].pc # "crear"
           /\ conf[t].check_in # NULO
           /\ conf[t].check_out # NULO)
          => reservas' = Append(reservas,
                                [propiedad_id |-> conf[t].propiedad_id,
                                 fecha_inicio |-> conf[t].check_in,
                                 fecha_fin |-> conf[t].check_out,
                                 estado |-> "confirmada",
                                 precio_total |-> 0])]_vars

\* two calls have returned the confirmation and their two 'confirmada' rows
\* are overlapping stays of one property
C3_Testigo ==
    \E t \in Hilos, u \in Hilos :
        /\ t # u
        /\ conf[t].resultado = "confirmada"
        /\ conf[u].resultado = "confirmada"
        /\ FilaDe(t).estado = "confirmada"
        /\ FilaDe(u).estado = "confirmada"
        /\ FilaDe(t).fecha_inicio \in Fechas
        /\ FilaDe(u).fecha_inicio \in Fechas
        /\ FilaDe(t).fecha_inicio <= FilaDe(t).fecha_fin
        /\ FilaDe(u).fecha_inicio <= FilaDe(u).fecha_fin
        /\ Solapan(FilaDe(t), FilaDe(u))

C9_SinReservaConDatosIncompletos ==
    \A t \in Hilos :
        (conf[t].pc = "retornado" /\ conf[t].incompleto) =>
            /\ conf[t].resultado \in {"no_disponible", "error"}
            /\ conf[t].fila = 0

(***************************************************************************)
(* Claims about the conversation store and the reply (specification        *)
(* SpecConv)                                                               *)
(***************************************************************************)
\* an empty stored value: NULL, the empty text or the number 0
Vacio(v) == v \in {<<"null", "">>, <<"text", "">>, <<"int", "0">>}

FilaAnalizada == conversaciones[analisis.conversation_id]

\* C7: the reply follows a fixed priority over the context: no context, the
\* generic reply; else confirmed, the already-confirmed reply even with
\* fields missing; else nothing missing, the confirmation proposal; else the
\* request: the question of the field when one is missing, one list message
\* naming each when several are.
C7_PrioridadRespuesta ==
    analisis.hecha =>
        LET context == analisis.context
            r == analisis.respuesta
        IN  /\ ~context.existe => r = generate_general_response
            /\ (context.existe /\ context.confirmada) =>
                  r = RESPUESTA_YA_CONFIRMADA
            /\ (context.existe /\ ~context.confirmada
                   /\ context.faltantes = <<>>) =>
                  /\ r.tipo = "propuesta_confirmacion"
                  /\ r.datos = <<context.data["propiedad"],
                                 context.data["check_in"],
                                 context.data["check_out"],
                                 context.data["numero_huespedes"],
                                 context.data["nombre_cliente"]>>
            /\ (context.existe /\ ~context.confirmada
                   /\ Len(context.faltantes) = 1) =>
                  /\ r.tipo = "pregunta"
                  /\ r.partes = <<messages[context.faltantes[1]]>>
            /\ (context.existe /\ ~context.confirmada
                   /\ Len(context.faltantes) > 1) =>
                  /\ r.tipo = "lista"
                  /\ Len(r.partes) = Len(context.faltantes)
            /\ context.existe = FilaAnalizada.existe

\* a confirmed conversation with fields missing got the already-confirmed
\* reply
C7_Testigo ==
    /\ analisis.hecha
    /\ analisis.context.existe
    /\ analisis.context.confirmada
    /\ Len(analisis.context.faltantes) > 1
    /\ analisis.respuesta = RESPUESTA_YA_CONFIRMADA

\* C10: get_missing_fields(id) is the sequence, in the order nombre_cliente,
\* propiedad, check_in, check_out, numero_huespedes, correo_cliente, of
\* exactly the fields whose stored value is empty (NULL, '' or 0): all six
\* for a fresh or unknown conversation, none once all six are non-empty,
\* never propiedad_id; is_confirmed(id) is true iff the stored confirmacion
\* is the text 'sí'.
C10_FaltantesYConfirmada ==
    analisis.hecha =>
        LET fila == FilaAnalizada
            falta(c) == ~fila.existe \/ Vacio(fila.datos[c])
            orden == <<"nombre_cliente", "propiedad", "check_in", "check_out",
                       "numero_huespedes", "correo_cliente">>
        IN  /\ analisis.faltantes = SelectSeq(orden, falta)
            /\ (~fila.existe \/ fila = FilaNueva) => analisis.faltantes = orden
            /\ (fila.existe /\ \A k \in DOMAIN orden : ~Vacio(fila.datos[orden[k]]))
                  => analisis.faltantes = <<>>
            /\ \A k \in DOMAIN analisis.faltantes :
                  analisis.faltantes[k] # "propiedad_id"
            /\ analisis.confirmada <=>
                  (fila.existe /\ fila.datos["confirmacion"] = <<"text", "sí">>)

\* a conversation with a name, a date stored as 0, a count stored as '' and
\* confirmacion 'si' reports exactly the empty fields and is not confirmed
C10_Testigo ==
    /\ analisis.hecha
    /\ FilaAnalizada.existe
    /\ FilaAnalizada.datos["nombre_cliente"] = Txt("Juan")
    /\ FilaAnalizada.datos["check_in"] = Entero("0")
    /\ FilaAnalizada.datos["numero_huespedes"] = Txt("")
    /\ FilaAnalizada.datos["propiedad_id"] = NULLC
    /\ FilaAnalizada.datos["confirmacion"] = Txt("si")
    /\ analisis.faltantes =
          <<"propiedad", "check_in", "check_out", "numero_huespedes",
            "correo_cliente">>
    /\ ~analisis.confirmada

(***************************************************************************)
(* Claims about the conversation id (specification SpecIds)                *)
(***************************************************************************)
\* the normalized pair of a mail: the sender lowercased; the subject
\* lowercased, trimmed and with one leading re:/fw:/fwd: prefix removed
ParNormalizado(remitente, asunto) ==
    <<Minuscula(remitente), QuitarPrefijo(Strip(Minusculas(asunto)))>>

\* C11: the id is a function of the normalized pair (every mail with the
\* normalized pair of the mail at hand gets its id), ConversationFlow and
\* ConversationTracker give the id of the SQL store, and a reply whose
\* subject is the subject answered behind a leading Re:/RE:/Fwd:/fw: prefix
\* gets the id of the mail answered.
C11_IdDeConversacion ==
    /\ idsCorreo.hecha =>
          /\ idsCorreo.flow = idsCorreo.sql
          /\ idsCorreo.tracker = idsCorreo.sql
          /\ \A r \in Remitentes, a \in AsuntosCorreo :
                ParNormalizado(r, a) =
                    ParNormalizado(correo.remitente, correo.asunto)
                => get_conversation_id(r, a) = idsCorreo.sql
    /\ idsCorreo.respondida => idsCorreo.sql_respuesta = idsCorreo.sql

(***************************************************************************)
(* Claims about process_message (specification SpecProceso)                *)
(***************************************************************************)
FaltantesDeFila(id, fila) ==
    LET f == get_missing_fields([conversaciones EXCEPT ![id] = fila], id) IN
    {f[k] : k \in DOMAIN f}

\* the message yielded nothing for the field
SinDato(v) == v = <<"absent", "">> \/ Vacio(v)

\* C12: a call of process_message never adds a field to the result of
\* get_missing_fields of the conversation: a required field that held a
\* non-empty value holds a non-empty value after the call, and a field for
\* which the message yielded nothing is left as it was.
C12_FaltantesNoCrecen ==
    procesado.hecho =>
        LET id == procesado.conversation_id
            antes == procesado.antes
            ahora == conversaciones[id]
        IN  /\ ahora.existe
            /\ FaltantesDeFila(id, ahora) \subseteq FaltantesDeFila(id, antes)
            /\ antes.existe =>
                  \A k \in DOMAIN TodosLosCampos :
                      LET c == TodosLosCampos[k] IN
                      /\ ~Vacio(antes.datos[c]) => ~Vacio(ahora.datos[c])
                      /\ SinDato(procesado.extracted_data[c]) =>
                            ahora.datos[c] = antes.datos[c]

\* a message with an empty name and another sender address was processed
\* for a conversation that had the name and an address: the name stayed,
\* the address was replaced
C12_Testigo ==
    /\ procesado.hecho
    /\ procesado.antes.existe
    /\ procesado.antes.datos["nombre_cliente"] = Txt("Juan")
    /\ procesado.extracted_data["nombre_cliente"] = Txt("")
    /\ conversaciones[procesado.conversation_id].datos["nombre_cliente"] =
          Txt("Juan")
    /\ procesado.antes.datos["correo_cliente"] = Txt("Maria@Gmail.com")
    /\ conversaciones[procesado.conversation_id].datos["correo_cliente"] =
          Txt("maria@gmail.com")

(***************************************************************************)
(* Claims about crear_reserva (specification SpecPrecios)                  *)
(***************************************************************************)
\* C13: every row stored by crear_reserva has estado 'pendiente' and
\* precio_total = (days from fecha_inicio to fecha_fin) x precio_noche of
\* its property; that is 0 for a same-day stay and 0 for a property whose
\* precio_noche is NULL or 0. A call that returns an id stored its row.
C13_PrecioTotal ==
    /\ \A k \in DOMAIN reservas :
          LET r == reservas[k]
              precio == propiedades[r.propiedad_id].precio_noche
              dias == r.fecha_fin - r.fecha_inicio
          IN  /\ r.estado = "pendiente"
              /\ r.precio_total = (IF precio = NULO THEN 0 ELSE dias * precio)
              /\ r.fecha_inicio = r.fecha_fin => r.precio_total = 0
              /\ precio \in {NULO, 0} => r.precio_total = 0
    /\ (llamadaReserva.hecha /\ ~llamadaReserva.excepcion) =>
          /\ llamadaReserva.reserva_id = Len(reservas)
          /\ reservas[Len(reservas)].propiedad_id = llamadaReserva.propiedad_id
          /\ reservas[Len(reservas)].fecha_inicio = llamadaReserva.fecha_inicio
          /\ reservas[Len(reservas)].fecha_fin = llamadaReserva.fecha_fin

\* a priced property has a one-night stay priced one night and a same-day
\* stay priced 0
C13_Testigo ==
    \E j \in DOMAIN reservas, k \in DOMAIN reservas :
        /\ reservas[j].propiedad_id = reservas[k].propiedad_id
        /\ propiedades[reservas[j].propiedad_id].precio_noche = 30000
        /\ reservas[j].fecha_fin = reservas[j].fecha_inicio + 1
        /\ reservas[j].precio_total = 30000
        /\ reservas[k].fecha_fin = reservas[k].fecha_inicio
        /\ reservas[k].precio_total = 0

(***************************************************************************)
(* Claims about verificar_disponibilidad_optimized (specification SpecOpt) *)
(***************************************************************************)
\* C14: on a cache miss verificar_disponibilidad_optimized gives the answer
\* of verificar_disponibilidad for every table, property and window.
C14_MismaRespuesta ==
    consultaOpt.hecha => consultaOpt.optimizada = consultaOpt.primaria

(***************************************************************************)
(* Claims about ObjectPool (specification SpecPool)                        *)
(***************************************************************************)
\* C15: a pool never holds more than max_size idle objects, and a
\* return_object call made while the pool is full leaves the pool as it was:
\* the object is dropped, not stored.
C15_PoolAcotado ==
    [][/\ \A c \in Clases : Len(pool'[c]) <= max_size
       /\ (/\ llamadaPool'.op \in {"return_object", "return_to_pool"}
           /\ llamadaPool'.llena) => pool' = pool]_vars

C15_Testigo ==
    /\ llamadaPool.op = "return_object"
    /\ llamadaPool.llena
    /\ llamadaPool.clase = "Reiniciable"
    /\ Len(pool["Reiniciable"]) = max_size

\* C16: return_object empties a list or a dict before it enters the pool:
\* every idle list and dict is empty, so every one handed out by get is.
C16_DevueltosVacios ==
    /\ \A c \in {"list", "dict"} : \A k \in DOMAIN pool[c] :
          pool[c][k].elementos = 0
    /\ (/\ llamadaPool.op = "get"
        /\ llamadaPool.desdePool
        /\ llamadaPool.obj.clase \in {"list", "dict"})
          => llamadaPool.obj.elementos = 0

(***************************************************************************)
(* Claims about QueryCache (specification SpecQCache) and about the writes *)
(* of OptimizedDatabase (specification SpecCacheDB)                        *)
(***************************************************************************)
C17_Paso ==
    /\ llamadaCache'.op = "get" =>
          LET k == llamadaCache'.key
              e == cache[k]
          IN  /\ (e.presente /\ reloj < e.timestamp + e.ttl) =>
                    (llamadaCache'.valor = e.result /\ cache' = cache)
              /\ (e.presente /\ reloj >= e.timestamp + e.ttl) =>
                    /\ llamadaCache'.valor = NULO
                    /\ cache' = [cache EXCEPT ![k] = AUSENTE_E]
    /\ llamadaCache'.op = "invalidate" =>
          cache' = [k \in Claves |->
                       IF llamadaCache'.conPatron
                          => Contiene(llamadaCache'.pattern, k)
                       THEN AUSENTE_E ELSE cache[k]]
    /\ llamadaCache'.op = "ninguna" => cache' = cache

\* C17: an entry (value, t, T) is returned by get at every time before
\* t + T; from t + T on get returns None and deletes the entry; time alone
\* changes no entry; invalidate with a pattern removes exactly the entries
\* whose key contains it, and without a pattern removes all.
C17_TtlEInvalidacion == [][C17_Paso]_vars

\* a get at the expiry time of an entry returned None and removed it, while
\* the other entry stays
C17_Testigo ==
    /\ llamadaCache.op = "get"
    /\ llamadaCache.key = CacheKey("reservas")
    /\ llamadaCache.valor = NULO
    /\ reloj = default_ttl
    /\ ~cache[CacheKey("reservas")].presente
    /\ cache[ClaveDecorador("reservas")].presente

\* C18: a read through execute_cached_query or a get_*_optimized accessor
\* returns the current rows of its table, whatever writes through
\* execute_write_query or execute_batch came before.
C18_LecturaActual ==
    llamadaCache.op \in {"execute_cached_query", "get_optimized"}
        => llamadaCache.valor = filas[llamadaCache.tabla]

(***************************************************************************)
(* Claims about ConnectionPool (specification SpecConn)                    *)
(***************************************************************************)
\* C19: a get_connection call that found max_connections connections in
\* use returns a connection once a holder has called return_connection, and
\* every return_connection call returns.
C19_EsperaYDevolucion ==
    /\ \A t \in HilosConn :
          (/\ pcConn[t] = "reintento"
           /\ \E h \in HilosConn : pcConn[h] = "return_connection")
             ~> (pcConn[t] = "fuera")
    /\ \A h \in HilosConn :
          (pcConn[h] = "return_connection") ~> (pcConn[h] = "fuera")

(***************************************************************************)
(* Claims about OptimizedApplication.run (specification SpecApp)           *)
(***************************************************************************)
PasoHecho(nombre, k) == k \in DOMAIN app.pasos /\ app.pasos[k].paso = nombre

\* C20: once run has ended after start_monitoring was called, and the event
\* loop was entered, stop_monitoring, optimize_memory and the GUI teardown
\* have been attempted in this order, however the loop ended.
C20_PasosDeCierre ==
    (/\ app.pc \in {"run_termino", "main_termino"}
     /\ \E k \in DOMAIN app.pasos : PasoHecho("start_monitoring", k)
     /\ app.salida \in FinesDelBucle)
        => \E i, j, k \in DOMAIN app.pasos :
              /\ i < j /\ j < k
              /\ PasoHecho("stop_monitoring", i)
              /\ PasoHecho("optimize_memory", j)
              /\ PasoHecho("quit", k)

(***************************************************************************)
(* Claims about MemoryMonitor (specification SpecMonitor)                  *)
(***************************************************************************)
C21_Paso ==
    monitor'.paridad # monitor.paridad =>
        /\ Len(monitor'.memory_history) <= maxlen
        /\ monitor'.tick.muestra # NULO =>
              LET todas == Append(monitor.memory_history, monitor'.tick.muestra)
              IN  monitor'.memory_history =
                     SubSeq(todas, Max(1, Len(todas) - maxlen + 1), Len(todas))
        /\ monitor'.tick.muestra = NULO =>
              monitor'.memory_history = monitor.memory_history
        /\ monitor'.peak_memory = monitor'.maxVisto
        /\ monitor'.tick.limpieza <=>
              /\ Len(monitor'.memory_history) >= 5
              /\ 100 * Suma(UltimosCinco(monitor'.memory_history))
                    > 5 * 80 * monitor'.peak_memory

\* C21: after every tick memory_history holds the most recent samples, at
\* most maxlen of them, peak_memory is the maximum of all samples taken, and
\* the cleanup ran on the tick iff at least 5 samples are held and the mean
\* of the last 5 exceeds 80% of peak_memory.
C21_HistoriaPicoLimpieza == [][C21_Paso]_vars

\* a tick on a full history whose cleanup ran, after a tick without cleanup
C21_Testigo ==
    /\ Len(monitor.memory_history) = maxlen
    /\ monitor.tick.limpieza
    /\ monitor.peak_memory = 5
    /\ monitor.memory_history[1] = 1

\* C29: after any sequence of start_monitoring and stop_monitoring calls at
\* most one monitor loop is alive.
C29_UnSoloLoop == monitor.loops <= 1

(***************************************************************************)
(* Claims about LazyContainer (specification SpecLazy)                     *)
(***************************************************************************)
\* C22: between two unloads the loader is invoked at most once, and a get
\* that ran with no unload in between returns the value of the one load
\* made since the last unload.
C22_UnaCargaPorEpoca ==
    /\ lazy.cargasEpoca <= 1
    /\ \A t \in HilosLazy :
          (/\ lazy.retorno[t].hecha
           /\ lazy.retorno[t].epocaInicio = lazy.retorno[t].epocaFin)
             => /\ lazy.retorno[t].cargas = 1
                /\ lazy.retorno[t].valor = lazy.retorno[t].cargado

\* both threads returned the value loaded again after an unload
C22_Testigo ==
    \A t \in HilosLazy :
        /\ lazy.retorno[t].hecha
        /\ lazy.retorno[t].epocaInicio = lazy.retorno[t].epocaFin
        /\ lazy.retorno[t].epocaFin = 1
        /\ lazy.retorno[t].valor = 2

\* C30: a get never returns the None that unload writes.
C30_NuncaNone ==
    \A t \in HilosLazy : lazy.retorno[t].hecha => lazy.retorno[t].valor # NULO

(***************************************************************************)
(* Claims about MemoryEfficientList (specification SpecLista)              *)
(***************************************************************************)
\* C23: after any sequence of reads at most max_chunks chunks are held; a
\* chunk evicted is the one of lowest index held before the load, and never
\* the chunk just loaded.
C23_ChunksAcotados ==
    /\ Cardinality(lista._chunks) <= max_chunks
    /\ lista.expulsado # NULO =>
          /\ lista.expulsado = MinimoDe(lista.antes)
          /\ lista.expulsado # lista.chunk_index
          /\ lista.chunk_index \in lista._chunks

(***************************************************************************)
(* Claims about AsyncTaskQueue (specifications SpecCola, SpecColaJusta)    *)
(***************************************************************************)
\* C24: active_tasks never holds more than max_concurrent_tasks tasks.
C24_ActivasAcotadas == Cardinality(cola.active_tasks) <= max_concurrent_tasks

\* a worker holds a task back while active_tasks is at the ceiling
C24_Testigo ==
    /\ Cardinality(cola.active_tasks) = max_concurrent_tasks
    /\ \E w \in Workers : cola.pc[w] = "throttle"

\* C25: every task added is eventually executed and from then on
\* get_result gives success with its result if it returned and failure if
\* it raised, whatever the tasks before it did.
C25_TodaTareaTermina ==
    \A id \in Tareas :
        (cola.estado[id] = "cola") ~>
            [](\/ /\ cola.estado[id] = "ok"
                  /\ cola.results[id] = [success |-> TRUE, result |-> id]
               \/ /\ cola.estado[id] = "error"
                  /\ ~cola.results[id].success
                  /\ cola.results[id] # SinResultado)

\* two tasks that raised have their failure recorded and a third task has
\* its result
C25_Testigo ==
    /\ \E a, b \in Tareas :
          /\ a # b
          /\ cola.results[a] = [success |-> FALSE, result |-> NULO]
          /\ cola.results[b] = [success |-> FALSE, result |-> NULO]
    /\ \E c \in Tareas : cola.results[c] = [success |-> TRUE, result |-> c]

(***************************************************************************)
(* C26: the tally procesar_mensajes_nuevos returns accounts for every      *)
(* message of the batch: respondidos_auto + requieren_revision + errores   *)
(* is the number of messages fetched, whatever the mix of send successes,  *)
(* send failures and exceptions.                                           *)
(***************************************************************************)
C26_TallyCompleto ==
    (pcProc = "idle" /\ retorno.tipo = "resultados")
        => retorno.valor.respondidos_auto + retorno.valor.requieren_revision
               + retorno.valor.errores = Len(lote)

(***************************************************************************)
(* C27: verificar_disponibilidad_optimized never answers available for a   *)
(* window once a conflicting non-cancelled reservation has been inserted   *)
(* into reservas through execute_write_query: a cached 'available' answer  *)
(* for that property and window does not outlive the insert. Every row of  *)
(* reservas is inserted through execute_write_query here, and a row        *)
(* conflicts when the function's own query counts it.                      *)
(***************************************************************************)
C27_DisponibleSinConflicto ==
    \A v \in VentanasDisp :
        (/\ llamadaCache.op = "verificar_disponibilidad_optimized"
         /\ llamadaCache.key = ClaveDisponibilidad(v[1], v[2], v[3])
         /\ llamadaCache.valor = BoolPy(TRUE))
            => verificar_disponibilidad_optimized(reservas, v[1], v[2], v[3])

(***************************************************************************)
(* C28: an ObjectPool never hands the same object to two holders at once:  *)
(* after any sequence of get and return_object calls, including returning  *)
(* the same object twice, the idle pool holds no object twice and no       *)
(* object that is currently checked out.                                   *)
(***************************************************************************)
C28_UnSoloTenedor ==
    /\ \A a, b \in Holders :
          (a # b /\ objpool.tiene[a] # SIN_OBJETO)
              => objpool.tiene[a].id # objpool.tiene[b].id
    /\ \A i, j \in DOMAIN objpool.pool :
          i # j => objpool.pool[i].id # objpool.pool[j].id
    /\ \A i \in DOMAIN objpool.pool, h \in Holders :
          objpool.pool[i].id # objpool.tiene[h].id

=============================================================================
